---- MODULE Spec2Model ----
(***************************************************************************)
(* Word-search generator: the modular engine (src/unnamed/part_004), the   *)
(* mutate-and-restore engine (src/src/utils/wordSearch.ts) and the App     *)
(* (src/unnamed/part_000).                                                 *)
(*                                                                         *)
(* A text is a sequence of code points, each a one-character string; a     *)
(* grapheme is a non-empty sequence of code points; a grid cell holds a    *)
(* grapheme or the empty sentinel "" (the empty sequence).                 *)
(***************************************************************************)
EXTENDS Integers, Sequences, FiniteSets, TLC

VARIABLES
    segmenter,        \* TRUE iff Intl.Segmenter exists in the host (part_004:22)
    words,            \* generateWordSearch argument
    gridSize,         \* generateWordSearch argument
    allowBackwards,   \* generateWordSearch argument
    pc,               \* position of the control flow
    puzzleAttempt,    \* generateWordSearch local (part_004:279)
    result,           \* generateWordSearch local (part_004:280)
    calls,            \* history: number of generatePuzzle calls made so far
    caught,           \* history: the errors caught at part_004:299, in order
    processedWords,   \* generatePuzzle local (part_004:214)
    grid,             \* generatePuzzle local (part_004:226)
    wordPositions,    \* generatePuzzle local (part_004:227)
    charDistribution, \* generatePuzzle local (part_004:229)
    wordIndex,        \* index of the word the placing loop is at (part_004:232)
    fillAt,           \* row-major index of the cell the fill loop is at (part_004:262)
    ret,              \* value returned by generateWordSearch, or Null
    thrown,           \* message of the error generateWordSearch threw, or Null
    previous,         \* history: what an earlier call with these arguments returned
    call,             \* the direct call of a helper made, with what it returned
    wordInput,        \* App state: the text of the words textarea (part_000:27)
    puzzle,           \* App state: the puzzle on display, or none (part_000:30)
    error,            \* App state: the message of the error popup, or Null (part_000:37)
    showAnswers,      \* App state (part_000:36)
    isUpperCase,      \* App state (part_000:38)
    numColumns,       \* generatePDF local (part_000:233)
    currentWordIndex, \* generatePDF local (part_000:305)
    isFirstPage,      \* generatePDF local (part_000:307)
    pageCount         \* the pages of pdfDoc (part_000:117, 313)

args == <<segmenter, words, gridSize, allowBackwards>>
locals == <<processedWords, grid, wordPositions, charDistribution, wordIndex, fillAt>>
app == <<wordInput, puzzle, error, showAnswers, isUpperCase>>
pdf == <<numColumns, currentWordIndex, isFirstPage, pageCount>>
vars == <<args, pc, puzzleAttempt, result, calls, caught, locals, ret, thrown,
          previous, call, app, pdf>>

(***************************************************************************)
(* Bounds of the model.                                                    *)
(***************************************************************************)
MaxGridSize == 2    \* gridSize ranges over 1..MaxGridSize
MaxFilled == 1      \* non-empty cells of a grid handed directly to a helper
MaxEntries == 2     \* entries of a distribution handed directly to the sampler
CumDen == 4         \* its cumulative frequencies are the k/CumDen, k in 0..CumDen

\* The word lists generateWordSearch is called with. "m" stands for a code
\* point of class Extend (a variation selector, a skin-tone modifier), which
\* a grapheme segmenter joins to the code point before it.
WordLists ==
    { <<>>,                                                \* no word
      << <<>>, <<" ">> >>,                                 \* only empty words
      << <<"A", "B", "A">> >>,                             \* longer than a small grid
      << <<"A">> >>,
      << <<"A", " ", "B">> >>,                             \* inner whitespace
      << <<"A">>, <<"B">> >>,
      << <<"B", "A">>, <<"A", " ", "B">> >>,
      << <<"A", "m">>, <<"A">> >>,                         \* a two-code-point grapheme
      << <<"A">>, <<"A", "B">> >>,                         \* shorter word first
      << <<"A", " ", "B">>, <<" ">>, <<"A", "B", "A">> >>, \* accepted and rejected words
      << <<"A">>, <<"A">> >>,                              \* a word twice
      << <<"A", "A">>, <<"B", "B">>, <<"A", "B">> >>,      \* can fill a 2x2 grid
      << <<"A">>, <<"B">>, <<"A">> >>                      \* a word after one a 1x1 grid has no cell for
    }

HasExtend(wordList) ==
    \E i \in 1..Len(wordList) : \E j \in 1..Len(wordList[i]) : wordList[i][j] = "m"

\* The words handed directly to a helper.
HelperWords == { <<>>, <<"A">>, <<"A", "B">>, <<"A", "m">> }

\* null, for the messages of errors; None and Some(x) for a value that may be
\* null; EMPTY is the empty sentinel "" of a grid cell.
Null == "null"
None == <<>>
Some(x) == <<x>>
EMPTY == <<>>

\* part_000:27-38: the state of the App when it is mounted, which it keeps
\* while the engine is called on its own.
AppMounted ==
    /\ wordInput = <<>>
    /\ puzzle = None
    /\ error = Null
    /\ showAnswers = FALSE
    /\ isUpperCase = FALSE

\* No PDF is being generated.
NoPdf ==
    /\ numColumns = 0
    /\ currentWordIndex = 0
    /\ isFirstPage = TRUE
    /\ pageCount = 0

MAX_PUZZLE_ATTEMPTS == 10
NoValidWordsError == "No valid words provided"
ExhaustedError == "Could not generate a valid puzzle after multiple attempts"

(***************************************************************************)
(* Grapheme segmentation.                                                  *)
(***************************************************************************)
IsExtend(c) == c = "m"
IsWhitespace(c) == c = " "

RECURSIVE Clusters(_, _, _)
\* Extended grapheme clusters of text from index i on, acc the clusters so
\* far: an Extend code point joins the cluster before it (rule GB9), any other
\* code point starts a cluster.
Clusters(text, i, acc) ==
    IF i > Len(text) THEN acc
    ELSE IF IsExtend(text[i]) /\ Len(acc) > 0
         THEN Clusters(text, i + 1,
                       [acc EXCEPT ![Len(acc)] = Append(acc[Len(acc)], text[i])])
         ELSE Clusters(text, i + 1, Append(acc, <<text[i]>>))

splitGraphemes(text) ==
    IF segmenter THEN Clusters(text, 1, <<>>)
    ELSE [i \in 1..Len(text) |-> <<text[i]>>]

countGraphemes(text) == Len(splitGraphemes(text))

\* word.replace(/\s+/g, "")
StripWhitespace(text) == SelectSeq(text, LAMBDA c : ~IsWhitespace(c))

Reverse(s) == [i \in 1..Len(s) |-> s[Len(s) + 1 - i]]

(***************************************************************************)
(* Stable sort of records by descending .key (Array.prototype.sort with    *)
(* the comparator (a, b) => key(b) - key(a)).                              *)
(***************************************************************************)
RECURSIVE InsertDesc(_, _, _)
InsertDesc(sorted, x, i) ==
    IF i > Len(sorted) THEN Append(sorted, x)
    ELSE IF sorted[i].key < x.key
         THEN SubSeq(sorted, 1, i - 1) \o <<x>> \o SubSeq(sorted, i, Len(sorted))
         ELSE InsertDesc(sorted, x, i + 1)

RECURSIVE SortDescFrom(_, _, _)
SortDescFrom(items, i, sorted) ==
    IF i > Len(items) THEN sorted
    ELSE SortDescFrom(items, i + 1, InsertDesc(sorted, items[i], 1))

SortDesc(items) == SortDescFrom(items, 1, <<>>)

(***************************************************************************)
(* getDirections                                                           *)
(***************************************************************************)
Dir(dr, dc, b) == [dRow |-> dr, dCol |-> dc, isBackward |-> b]

\* A getDirections whose backward entries turn the vector around.
getDirections_TurnsVectors(backwards) ==
    LET baseDirections ==
            << Dir(0, 1, FALSE), Dir(1, 0, FALSE), Dir(1, 1, FALSE), Dir(-1, 1, FALSE) >>
    IN  IF backwards
        THEN baseDirections \o
             << Dir(0, -1, TRUE), Dir(-1, 0, TRUE), Dir(-1, -1, TRUE), Dir(1, -1, TRUE) >>
        ELSE baseDirections

getDirections(backwards) ==
    LET baseDirections ==
            << Dir(0, 1, FALSE), Dir(1, 0, FALSE), Dir(1, 1, FALSE), Dir(-1, 1, FALSE) >>
    IN  IF backwards
        THEN baseDirections \o
             << Dir(0, 1, TRUE), Dir(1, 0, TRUE), Dir(1, 1, TRUE), Dir(-1, 1, TRUE) >>
        ELSE baseDirections

(***************************************************************************)
(* Rationals num/den, den > 0: frequencies and the values random() returns.*)
(***************************************************************************)
Rat(n, d) == [num |-> n, den |-> d]
LeqRat(a, b) == a.num * b.den <= b.num * a.den

\* The values k/den of random(), a float in [0,1). For den the number of
\* candidate anchors, floor(random() * length) takes each index for one of
\* them; for den the denominator of the cumulative frequencies, the
\* comparison random() <= cumulativeFreq takes each outcome for one of them.
RandomValues(den) == { Rat(k, den) : k \in 0..(den - 1) }

(***************************************************************************)
(* calculateCharacterDistribution                                          *)
(***************************************************************************)
RECURSIVE Flatten(_, _)
\* The graphemes of wordList[i..], in order.
Flatten(wordList, i) ==
    IF i > Len(wordList) THEN <<>>
    ELSE splitGraphemes(wordList[i]) \o Flatten(wordList, i + 1)

Occurrences(seq, x) == Cardinality({ i \in 1..Len(seq) : seq[i] = x })

\* Object.keys(charFrequency): the distinct graphemes in order of first
\* insertion (no grapheme of the model is an integer-like key).
FirstOccurrences(seq) ==
    SelectSeq([i \in 1..Len(seq) |-> [ch |-> seq[i], first |-> \A j \in 1..(i - 1) : seq[j] # seq[i]]],
              LAMBDA e : e.first)

RECURSIVE Accumulate(_, _, _, _, _, _)
\* The forEach of part_004:80-87; cumulative is the numerator of the running
\* sum over the denominator totalCharCount * (maxAttempts - 1).
Accumulate(sortedChars, index, cumulative, attemptNumber, maxAttempts, totalCharCount) ==
    IF index > Len(sortedChars) THEN <<>>
    ELSE LET originalFreq == sortedChars[index].key
             reversedFreq == sortedChars[Len(sortedChars) + 1 - index].key
             interpolatedFreq == originalFreq * ((maxAttempts - 1) - attemptNumber)
                                 + reversedFreq * attemptNumber
             next == cumulative + interpolatedFreq
         IN  << [char |-> sortedChars[index].item,
                 cumulativeFreq |-> Rat(next, totalCharCount * (maxAttempts - 1))] >>
             \o Accumulate(sortedChars, index + 1, next, attemptNumber, maxAttempts,
                           totalCharCount)

\* A calculateCharacterDistribution that counts a grapheme once for each of
\* its occurrences: one entry per occurrence, not per distinct grapheme.
calculateCharacterDistribution_KeysPerOccurrence(wordList, attemptNumber, maxAttempts) ==
    LET all == Flatten(wordList, 1)
        totalCharCount == Len(all)
        chars == [i \in 1..Len(all) |-> [item |-> all[i], key |-> Occurrences(all, all[i])]]
        sortedChars == SortDesc(chars)
    IN  Accumulate(sortedChars, 1, 0, attemptNumber, maxAttempts, totalCharCount)

calculateCharacterDistribution(wordList, attemptNumber, maxAttempts) ==
    LET all == Flatten(wordList, 1)
        totalCharCount == Len(all)
        keys == FirstOccurrences(all)
        chars == [i \in 1..Len(keys) |->
                    [item |-> keys[i].ch, key |-> Occurrences(all, keys[i].ch)]]
        sortedChars == SortDesc(chars)
    IN  Accumulate(sortedChars, 1, 0, attemptNumber, maxAttempts, totalCharCount)

(***************************************************************************)
(* selectCharFromDistribution                                              *)
(***************************************************************************)
TypeError == "TypeError"

RECURSIVE SelectFrom(_, _, _)
SelectFrom(distribution, randomValue, i) ==
    IF i > Len(distribution)
    THEN \* part_004:102: distribution[distribution.length - 1].char
         IF Len(distribution) = 0 THEN TypeError
         ELSE distribution[Len(distribution)].char
    ELSE IF LeqRat(randomValue, distribution[i].cumulativeFreq)
         THEN distribution[i].char
         ELSE SelectFrom(distribution, randomValue, i + 1)

\* A selectCharFromDistribution that compares with randomValue < cumulativeFreq.
selectCharFromDistribution_Exclusive(distribution, randomValue) ==
    LET hits == { i \in 1..Len(distribution) :
                    ~LeqRat(distribution[i].cumulativeFreq, randomValue) }
    IN  IF Len(distribution) = 0 THEN TypeError
        ELSE IF hits = {} THEN distribution[Len(distribution)].char
        ELSE distribution[CHOOSE i \in hits : \A j \in hits : i <= j].char

selectCharFromDistribution(distribution, randomValue) ==
    SelectFrom(distribution, randomValue, 1)

(***************************************************************************)
(* Grid: rows and columns are indexed from 0.                              *)
(***************************************************************************)
initializeGrid(size) == [r \in 0..(size - 1) |-> [c \in 0..(size - 1) |-> EMPTY]]

GridLength(g) == Cardinality(DOMAIN g)

Pos(r, c) == [row |-> r, col |-> c]

(***************************************************************************)
(* canPlaceWordAt                                                          *)
(***************************************************************************)
WordChars(word, direction) ==
    IF direction.isBackward THEN Reverse(splitGraphemes(word)) ELSE splitGraphemes(word)

RECURSIVE CanPlaceFrom(_, _, _, _, _)
\* The loop of part_004:158-176 from index i on (i counts from 0).
CanPlaceFrom(wordChars, g, pos, direction, i) ==
    IF i >= Len(wordChars) THEN TRUE
    ELSE LET currentRow == pos.row + direction.dRow * i
             currentCol == pos.col + direction.dCol * i
         IN  IF \/ currentRow < 0
                \/ currentRow >= GridLength(g)
                \/ currentCol < 0
                \/ currentCol >= GridLength(g)
             THEN FALSE
             ELSE LET existingChar == g[currentRow][currentCol]
                  IN  IF existingChar # EMPTY /\ existingChar # wordChars[i + 1]
                      THEN FALSE
                      ELSE CanPlaceFrom(wordChars, g, pos, direction, i + 1)

\* A canPlaceWordAt that takes every occupied cell for a conflict.
canPlaceWordAt_RejectsOccupied(word, g, pos, direction) ==
    \A i \in 0..(countGraphemes(word) - 1) :
        /\ pos.row + direction.dRow * i \in DOMAIN g
        /\ pos.col + direction.dCol * i \in DOMAIN g
        /\ g[pos.row + direction.dRow * i][pos.col + direction.dCol * i] = EMPTY

\* A canPlaceWordAt that checks the bounds only.
canPlaceWordAt_BoundsOnly(word, g, pos, direction) ==
    \A i \in 0..(countGraphemes(word) - 1) :
        /\ pos.row + direction.dRow * i \in DOMAIN g
        /\ pos.col + direction.dCol * i \in DOMAIN g

canPlaceWordAt(word, g, pos, direction) ==
    CanPlaceFrom(WordChars(word, direction), g, pos, direction, 0)

(***************************************************************************)
(* placeWord: the grid after the writes and the positions returned.        *)
(***************************************************************************)
RECURSIVE PlaceFrom(_, _, _, _, _, _)
PlaceFrom(wordChars, g, pos, direction, i, positions) ==
    IF i >= Len(wordChars) THEN [grid |-> g, positions |-> positions]
    ELSE LET currentRow == pos.row + direction.dRow * i
             currentCol == pos.col + direction.dCol * i
         IN  PlaceFrom(wordChars,
                       [g EXCEPT ![currentRow][currentCol] = wordChars[i + 1]],
                       pos, direction, i + 1,
                       Append(positions, Pos(currentRow, currentCol)))

\* A placeWord that writes the word forward whatever isBackward says.
placeWord_NeverReverses(word, g, pos, direction) ==
    PlaceFrom(splitGraphemes(word), g, pos, direction, 0, <<>>)

\* A placeWord that does not record the anchor among the positions.
placeWord_DropsFirstPosition(word, g, pos, direction) ==
    LET done == PlaceFrom(WordChars(word, direction), g, pos, direction, 0, <<>>)
    IN  [done EXCEPT !.positions = IF Len(@) = 0 THEN @ ELSE Tail(@)]

placeWord(word, g, pos, direction) ==
    PlaceFrom(WordChars(word, direction), g, pos, direction, 0, <<>>)

(***************************************************************************)
(* findValidWordPosition                                                   *)
(***************************************************************************)
Max(a, b) == IF a >= b THEN a ELSE b
Min(a, b) == IF a <= b THEN a ELSE b

\* A ValidPositions whose last anchor along a positive step is one short.
ValidPositions_StopsOneShort(word, g, direction) ==
    LET size == GridLength(g)
        wordLength == countGraphemes(word)
        rowMin == Max(0, IF direction.dRow < 0 THEN wordLength - 1 ELSE 0)
        rowMax == Min(size - 1, IF direction.dRow > 0 THEN size - wordLength - 1 ELSE size - 1)
        colMin == Max(0, IF direction.dCol < 0 THEN wordLength - 1 ELSE 0)
        colMax == Min(size - 1, IF direction.dCol > 0 THEN size - wordLength - 1 ELSE size - 1)
        width == colMax - colMin + 1
        height == rowMax - rowMin + 1
    IN  IF rowMax < rowMin \/ colMax < colMin THEN <<>>
        ELSE SelectSeq([k \in 1..(height * width) |->
                           Pos(rowMin + ((k - 1) \div width), colMin + ((k - 1) % width))],
                       LAMBDA p : canPlaceWordAt(word, g, p, direction))

\* The candidate anchors of part_004:131-138, in the order of the two loops.
ValidPositions(word, g, direction) ==
    LET size == GridLength(g)
        wordLength == countGraphemes(word)
        rowMin == Max(0, IF direction.dRow < 0 THEN wordLength - 1 ELSE 0)
        rowMax == Min(size - 1, IF direction.dRow > 0 THEN size - wordLength ELSE size - 1)
        colMin == Max(0, IF direction.dCol < 0 THEN wordLength - 1 ELSE 0)
        colMax == Min(size - 1, IF direction.dCol > 0 THEN size - wordLength ELSE size - 1)
        width == colMax - colMin + 1
        height == rowMax - rowMin + 1
    IN  IF rowMax < rowMin \/ colMax < colMin THEN <<>>
        ELSE SelectSeq([k \in 1..(height * width) |->
                           Pos(rowMin + ((k - 1) \div width), colMin + ((k - 1) % width))],
                       LAMBDA p : canPlaceWordAt(word, g, p, direction))

findValidWordPosition(word, g, direction, randomValue) ==
    LET positions == ValidPositions(word, g, direction)
    IN  IF Len(positions) = 0 THEN None
        ELSE Some(positions[((randomValue.num * Len(positions)) \div randomValue.den) + 1])

(***************************************************************************)
(* generatePuzzle, PREPARING: part_004:214-220.                            *)
(***************************************************************************)
\* A ProcessWords whose filter keeps the words longer than the grid.
ProcessWords_KeepsLongWords(wordList, size) ==
    LET stripped == [i \in 1..Len(wordList) |-> StripWhitespace(wordList[i])]
        kept == SelectSeq(stripped, LAMBDA w : countGraphemes(w) > 0)
        keyed == [i \in 1..Len(kept) |-> [item |-> kept[i], key |-> countGraphemes(kept[i])]]
        sorted == SortDesc(keyed)
    IN  [i \in 1..Len(sorted) |-> sorted[i].item]

\* A ProcessWords without the sort.
ProcessWords_Unsorted(wordList, size) ==
    LET stripped == [i \in 1..Len(wordList) |-> StripWhitespace(wordList[i])]
    IN  SelectSeq(stripped, LAMBDA w : countGraphemes(w) > 0 /\ countGraphemes(w) <= size)

ProcessWords(wordList, size) ==
    LET stripped == [i \in 1..Len(wordList) |-> StripWhitespace(wordList[i])]
        kept == SelectSeq(stripped,
                          LAMBDA w : countGraphemes(w) > 0 /\ countGraphemes(w) <= size)
        keyed == [i \in 1..Len(kept) |-> [item |-> kept[i], key |-> countGraphemes(kept[i])]]
        sorted == SortDesc(keyed)
    IN  [i \in 1..Len(sorted) |-> sorted[i].item]

\* part_004:236-240
AllDirections(backwards) ==
    LET baseDirections == getDirections(FALSE)
    IN  IF backwards
        THEN baseDirections \o
             [i \in 1..Len(baseDirections) |-> [baseDirections[i] EXCEPT !.isBackward = TRUE]]
        ELSE baseDirections

\* part_004:243: sort with the comparator () => random() - 0.5 leaves some
\* permutation of the directions. Only the first direction that yields a
\* position is used, and the orders that bring one direction to the front
\* make every direction that yields one be that first one.
MoveToFront(seq, k) ==
    <<seq[k]>> \o SubSeq(seq, 1, k - 1) \o SubSeq(seq, k + 1, Len(seq))

ShuffleOutcomes(seq) == { MoveToFront(seq, k) : k \in 1..Len(seq) }

\* A direction loop that gives up after the first shuffled direction.
TryDirections_FirstOnly(shuffledDirections, i, word, g, randomValue) ==
    LET direction == shuffledDirections[1]
        position == findValidWordPosition(word, g, direction, randomValue)
    IN  IF position # None
        THEN LET done == placeWord(word, g, position[1], direction)
             IN  [placed |-> TRUE, grid |-> done.grid, positions |-> done.positions]
        ELSE [placed |-> FALSE, grid |-> g, positions |-> <<>>]

RECURSIVE TryDirections(_, _, _, _, _)
\* The loop of part_004:246-254 from the i-th shuffled direction on.
TryDirections(shuffledDirections, i, word, g, randomValue) ==
    IF i > Len(shuffledDirections)
    THEN [placed |-> FALSE, grid |-> g, positions |-> <<>>]
    ELSE LET direction == shuffledDirections[i]
             position == findValidWordPosition(word, g, direction, randomValue)
         IN  IF position # None
             THEN LET done == placeWord(word, g, position[1], direction)
                  IN  [placed |-> TRUE, grid |-> done.grid, positions |-> done.positions]
             ELSE TryDirections(shuffledDirections, i + 1, word, g, randomValue)

(***************************************************************************)
(* The state machine of generateWordSearch and of the generatePuzzle call  *)
(* it is in.                                                               *)
(***************************************************************************)
\* Where no word holds an Extend code point the two segmentations agree, and
\* the host with a segmenter stands for both.
Init ==
    /\ words \in WordLists
    /\ segmenter \in (IF HasExtend(words) THEN BOOLEAN ELSE {TRUE})
    /\ gridSize \in 1..MaxGridSize
    /\ allowBackwards \in BOOLEAN
    /\ pc = "loop"
    /\ puzzleAttempt = 0
    /\ result = None
    /\ calls = 0
    /\ caught = <<>>
    /\ processedWords = <<>>
    /\ grid = None
    /\ wordPositions = <<>>
    /\ charDistribution = <<>>
    /\ wordIndex = 0
    /\ fillAt = 0
    /\ ret = None
    /\ thrown = Null
    /\ previous = None
    /\ call = None
    /\ AppMounted /\ NoPdf

\* The locals of a generatePuzzle call that has ended.
LocalsGone ==
    /\ processedWords' = <<>>
    /\ grid' = None
    /\ wordPositions' = <<>>
    /\ charDistribution' = <<>>
    /\ wordIndex' = 0
    /\ fillAt' = 0

\* A catch block that goes on to the next iteration without puzzleAttempt++.
GeneratePuzzleThrows_KeepsAttempt ==
    /\ pc = "loop"
    /\ puzzleAttempt < MAX_PUZZLE_ATTEMPTS
    /\ Len(ProcessWords(words, gridSize)) = 0
    /\ calls' = calls + 1
    /\ caught' = Append(caught, NoValidWordsError)
    /\ UNCHANGED <<args, pc, puzzleAttempt, result, locals, ret, thrown, previous, call>>
    /\ UNCHANGED <<app, pdf>>

\* A generateWordSearch without the try: the error of the call leaves it.
GeneratePuzzleThrows_Propagates ==
    /\ pc = "loop"
    /\ puzzleAttempt < MAX_PUZZLE_ATTEMPTS
    /\ Len(ProcessWords(words, gridSize)) = 0
    /\ calls' = calls + 1
    /\ caught' = Append(caught, NoValidWordsError)
    /\ thrown' = NoValidWordsError
    /\ pc' = "threw"
    /\ UNCHANGED <<args, puzzleAttempt, result, locals, ret, previous, call>>
    /\ UNCHANGED <<app, pdf>>

\* part_004:282-290 and 214-224: the call throws, part_004:299-302 catches.
GeneratePuzzleThrows ==
    /\ pc = "loop"
    /\ puzzleAttempt < MAX_PUZZLE_ATTEMPTS
    /\ Len(ProcessWords(words, gridSize)) = 0
    /\ calls' = calls + 1
    /\ caught' = Append(caught, NoValidWordsError)
    /\ puzzleAttempt' = puzzleAttempt + 1
    /\ UNCHANGED <<args, pc, result, locals, ret, thrown, previous, call>>
    /\ UNCHANGED <<app, pdf>>

\* A generatePuzzle that goes on with the grid and the placements of the
\* attempt before.
GeneratePuzzleBegins_KeepsGrid ==
    /\ pc = "loop"
    /\ puzzleAttempt < MAX_PUZZLE_ATTEMPTS
    /\ Len(ProcessWords(words, gridSize)) # 0
    /\ calls' = calls + 1
    /\ processedWords' = ProcessWords(words, gridSize)
    /\ grid' = IF result # None THEN result[1].grid ELSE initializeGrid(gridSize)
    /\ wordPositions' = IF result # None THEN result[1].wordPositions ELSE <<>>
    /\ charDistribution' =
           calculateCharacterDistribution(ProcessWords(words, gridSize), puzzleAttempt,
                                          MAX_PUZZLE_ATTEMPTS)
    /\ wordIndex' = 1
    /\ fillAt' = 0
    /\ pc' = "placing"
    /\ UNCHANGED <<args, puzzleAttempt, result, caught, ret, thrown, previous, call>>
    /\ UNCHANGED <<app, pdf>>

\* A generateWordSearch that hands generatePuzzle the number of the attempt,
\* counted from 1, for its index.
GeneratePuzzleBegins_CountsFromOne ==
    /\ pc = "loop"
    /\ puzzleAttempt < MAX_PUZZLE_ATTEMPTS
    /\ Len(ProcessWords(words, gridSize)) # 0
    /\ calls' = calls + 1
    /\ processedWords' = ProcessWords(words, gridSize)
    /\ grid' = initializeGrid(gridSize)
    /\ wordPositions' = <<>>
    /\ charDistribution' =
           calculateCharacterDistribution(ProcessWords(words, gridSize), puzzleAttempt + 1,
                                          MAX_PUZZLE_ATTEMPTS)
    /\ wordIndex' = 1
    /\ fillAt' = 0
    /\ pc' = "placing"
    /\ UNCHANGED <<args, puzzleAttempt, result, caught, ret, thrown, previous, call>>
    /\ UNCHANGED <<app, pdf>>

\* part_004:282-290 and 214-229
GeneratePuzzleBegins ==
    /\ pc = "loop"
    /\ puzzleAttempt < MAX_PUZZLE_ATTEMPTS
    /\ Len(ProcessWords(words, gridSize)) # 0
    /\ calls' = calls + 1
    /\ processedWords' = ProcessWords(words, gridSize)
    /\ grid' = initializeGrid(gridSize)
    /\ wordPositions' = <<>>
    /\ charDistribution' =
           calculateCharacterDistribution(ProcessWords(words, gridSize), puzzleAttempt,
                                          MAX_PUZZLE_ATTEMPTS)
    /\ wordIndex' = 1
    /\ fillAt' = 0
    /\ pc' = "placing"
    /\ UNCHANGED <<args, puzzleAttempt, result, caught, ret, thrown, previous, call>>
    /\ UNCHANGED <<app, pdf>>

\* part_004:243-254 for the current word: what the loop over the shuffled
\* directions can end with, over the shuffles and the values of random().
Tries ==
    { TryDirections(shuffledDirections, 1, processedWords[wordIndex], grid, randomValue) :
        shuffledDirections \in ShuffleOutcomes(AllDirections(allowBackwards)),
        randomValue \in RandomValues(gridSize * gridSize) }

\* part_004:232-254: one iteration of the placing loop that places its word.
PlaceNextWord ==
    /\ pc = "placing"
    /\ \E try \in Tries :
          /\ try.placed
          /\ grid' = try.grid
          /\ wordPositions' =
                 Append(wordPositions,
                        [word |-> processedWords[wordIndex], positions |-> try.positions])
    /\ IF wordIndex = Len(processedWords)
       THEN pc' = "filling" /\ wordIndex' = wordIndex
       ELSE pc' = "placing" /\ wordIndex' = wordIndex + 1
    /\ UNCHANGED <<args, puzzleAttempt, result, calls, caught, processedWords,
                   charDistribution, fillAt, ret, thrown, previous, call>>
    /\ UNCHANGED <<app, pdf>>

\* part_004:232-258 and 292-302: no direction yields a position, the call
\* returns isValid false and generateWordSearch goes on to the next attempt.
PlacingFails ==
    /\ pc = "placing"
    /\ \E try \in Tries : ~try.placed
    /\ result' = Some([grid |-> grid, wordPositions |-> wordPositions, isValid |-> FALSE])
    /\ puzzleAttempt' = puzzleAttempt + 1
    /\ pc' = "loop"
    /\ LocalsGone
    /\ UNCHANGED <<args, calls, caught, ret, thrown, previous, call>>
    /\ UNCHANGED <<app, pdf>>

\* A fill loop whose inner bound is col < gridSize - 1.
Filled_SkipsLastColumn(g, at, randomValue) ==
    LET row == at \div gridSize
        col == at % gridSize
    IN  IF g[row][col] = EMPTY /\ col < gridSize - 1
        THEN [g EXCEPT ![row][col] = selectCharFromDistribution(charDistribution, randomValue)]
        ELSE g

\* A fill loop without the test for the empty sentinel.
Filled_EveryCell(g, at, randomValue) ==
    [g EXCEPT ![at \div gridSize][at % gridSize] =
                  selectCharFromDistribution(charDistribution, randomValue)]

\* The grid after the fill loop has passed the cell at (part_004:264-266).
Filled(g, at, randomValue) ==
    LET row == at \div gridSize
        col == at % gridSize
    IN  IF g[row][col] = EMPTY
        THEN [g EXCEPT ![row][col] = selectCharFromDistribution(charDistribution, randomValue)]
        ELSE g

DistributionDen == charDistribution[Len(charDistribution)].cumulativeFreq.den

\* What the fill loop can leave after the cell fillAt, over the values of random().
Fills == { Filled(grid, fillAt, randomValue) : randomValue \in RandomValues(DistributionDen) }

\* part_004:262-268: one iteration of the fill loop, not the last.
FillCell ==
    /\ pc = "filling"
    /\ fillAt < gridSize * gridSize - 1
    /\ \E g \in Fills : grid' = g
    /\ fillAt' = fillAt + 1
    /\ UNCHANGED <<args, pc, puzzleAttempt, result, calls, caught, processedWords,
                   wordPositions, charDistribution, wordIndex, ret, thrown, previous,
                   call>>
    /\ UNCHANGED <<app, pdf>>

\* part_004:262-270 and 292-298: the last iteration of the fill loop, the
\* call returns isValid true and generateWordSearch returns.
FillLastCellAndReturn ==
    /\ pc = "filling"
    /\ fillAt = gridSize * gridSize - 1
    /\ \E g \in Fills :
          /\ result' = Some([grid |-> g, wordPositions |-> wordPositions,
                             isValid |-> TRUE])
          /\ ret' = Some([grid |-> g, words |-> words, wordPositions |-> wordPositions])
    /\ pc' = "returned"
    /\ LocalsGone
    /\ UNCHANGED <<args, puzzleAttempt, calls, caught, thrown, previous, call>>
    /\ UNCHANGED <<app, pdf>>

\* part_004:282 and 305
Exhausted ==
    /\ pc = "loop"
    /\ puzzleAttempt >= MAX_PUZZLE_ATTEMPTS
    /\ thrown' = ExhaustedError
    /\ pc' = "threw"
    /\ UNCHANGED <<args, puzzleAttempt, result, calls, caught, locals, ret, previous,
                   call>>
    /\ UNCHANGED <<app, pdf>>

Next ==
    \/ GeneratePuzzleThrows
    \/ GeneratePuzzleBegins
    \/ PlaceNextWord
    \/ PlacingFails
    \/ FillCell
    \/ FillLastCellAndReturn
    \/ Exhausted

Spec == Init /\ [][Next]_vars

(***************************************************************************)
(* A caller that calls generateWordSearch a second time with the arguments *)
(* of a call that returned. generateWordSearch takes no random source      *)
(* (part_004:273-277) and hands none to generatePuzzle (part_004:284-290), *)
(* whose random parameter then is Math.random: the second call draws anew. *)
(***************************************************************************)
CallAgain ==
    /\ pc = "returned"
    /\ previous = None
    /\ previous' = ret
    /\ pc' = "loop"
    /\ puzzleAttempt' = 0
    /\ result' = None
    /\ calls' = 0
    /\ caught' = <<>>
    /\ ret' = None
    /\ UNCHANGED <<args, locals, thrown, call>>
    /\ UNCHANGED <<app, pdf>>

NextAgain == Next \/ CallAgain

SpecAgain == Init /\ [][NextAgain]_vars

(***************************************************************************)
(* Direct calls of the helpers, as the tests of part_002 make them: a grid *)
(* with few non-empty cells, one call, its arguments and what it returned. *)
(***************************************************************************)
HelperGraphemes == { <<"A">>, <<"B">> }

Cells(size) == (0..(size - 1)) \X (0..(size - 1))

HelperGrids(size) ==
    { g \in [0..(size - 1) -> [0..(size - 1) -> {EMPTY} \cup HelperGraphemes]] :
        Cardinality({ rc \in Cells(size) : g[rc[1]][rc[2]] # EMPTY }) <= MaxFilled }

HelperPositions(size) == { Pos(r, c) : r \in -1..size, c \in -1..size }

\* The steps (dRow, dCol) in {-1,0,1}^2 other than (0,0), forward and backward.
HelperDirections ==
    { Dir(dr, dc, b) : dr \in -1..1, dc \in -1..1, b \in BOOLEAN } \
        { Dir(0, 0, b) : b \in BOOLEAN }

InitHelper ==
    /\ segmenter \in BOOLEAN
    /\ gridSize \in 1..MaxGridSize
    /\ grid \in HelperGrids(gridSize)
    /\ words = <<>>
    /\ allowBackwards = FALSE
    /\ pc = "helper"
    /\ puzzleAttempt = 0
    /\ result = None
    /\ calls = 0
    /\ caught = <<>>
    /\ processedWords = <<>>
    /\ wordPositions = <<>>
    /\ charDistribution = <<>>
    /\ wordIndex = 0
    /\ fillAt = 0
    /\ ret = None
    /\ thrown = Null
    /\ previous = None
    /\ call = None
    /\ AppMounted /\ NoPdf

HelperFrame ==
    UNCHANGED <<args, puzzleAttempt, result, calls, caught, processedWords,
                wordPositions, charDistribution, wordIndex, fillAt, ret, thrown,
                previous>>

\* A canPlaceWordAt that tries the word out in the grid and leaves it there.
CallCanPlaceWordAt_LeavesWord ==
    /\ pc = "helper"
    /\ \E word \in HelperWords, pos \in HelperPositions(gridSize),
          direction \in HelperDirections :
          /\ call' = Some([op |-> "canPlaceWordAt", word |-> word, pos |-> pos,
                           direction |-> direction, before |-> grid,
                           returned |-> canPlaceWordAt(word, grid, pos, direction)])
          /\ grid' = IF canPlaceWordAt(word, grid, pos, direction)
                     THEN placeWord(word, grid, pos, direction).grid
                     ELSE grid
    /\ pc' = "called"
    /\ HelperFrame
    /\ UNCHANGED <<app, pdf>>

\* canPlaceWordAt(word, grid, pos, direction)
CallCanPlaceWordAt ==
    /\ pc = "helper"
    /\ \E word \in HelperWords, pos \in HelperPositions(gridSize),
          direction \in HelperDirections :
          call' = Some([op |-> "canPlaceWordAt", word |-> word, pos |-> pos,
                        direction |-> direction, before |-> grid,
                        returned |-> canPlaceWordAt(word, grid, pos, direction)])
    /\ grid' = grid
    /\ pc' = "called"
    /\ HelperFrame
    /\ UNCHANGED <<app, pdf>>

\* Every cell placeWord(word, g, pos, direction) writes is a cell of g.
RayInGrid(word, g, pos, direction) ==
    \A i \in 0..(countGraphemes(word) - 1) :
        /\ pos.row + direction.dRow * i \in DOMAIN g
        /\ pos.col + direction.dCol * i \in DOMAIN g

\* placeWord(word, grid, pos, direction), for a ray inside the grid (the
\* callers hand it the positions findValidWordPosition returns).
CallPlaceWord ==
    /\ pc = "helper"
    /\ \E word \in HelperWords, pos \in HelperPositions(gridSize),
          direction \in HelperDirections :
          /\ RayInGrid(word, grid, pos, direction)
          /\ LET done == placeWord(word, grid, pos, direction)
             IN  /\ grid' = done.grid
                 /\ call' = Some([op |-> "placeWord", word |-> word, pos |-> pos,
                                  direction |-> direction, before |-> grid,
                                  returned |-> done.positions])
    /\ pc' = "called"
    /\ HelperFrame
    /\ UNCHANGED <<app, pdf>>

\* Every step (dRow, dCol) in {-1,0,1}^2, forward and backward.
FindDirections == { Dir(dr, dc, b) : dr \in -1..1, dc \in -1..1, b \in BOOLEAN }

\* findValidWordPosition(word, grid, direction, random)
CallFindValidWordPosition ==
    /\ pc = "helper"
    /\ \E word \in HelperWords, direction \in FindDirections,
          randomValue \in RandomValues(gridSize * gridSize) :
          call' = Some([op |-> "findValidWordPosition", word |-> word, pos |-> Pos(0, 0),
                        direction |-> direction, before |-> grid,
                        returned |-> findValidWordPosition(word, grid, direction,
                                                           randomValue)])
    /\ grid' = grid
    /\ pc' = "called"
    /\ HelperFrame
    /\ UNCHANGED <<app, pdf>>

NextHelper ==
    \/ CallCanPlaceWordAt
    \/ CallPlaceWord
    \/ CallFindValidWordPosition

SpecHelper == InitHelper /\ [][NextHelper]_vars

(***************************************************************************)
(* Direct calls of getDirections, calculateCharacterDistribution and       *)
(* selectCharFromDistribution, as the tests of part_002 make them: the     *)
(* sampler is handed a distribution written by hand or the one             *)
(* calculateCharacterDistribution has just returned.                       *)
(***************************************************************************)
\* The word lists calculateCharacterDistribution is called with: words
\* without whitespace, the longest first.
DistributionWordLists ==
    { <<>>,
      << <<"A">> >>,
      << <<"A", "B">> >>,
      << <<"A", "B", "A">> >>,
      << <<"A", "B">>, <<"A">> >>,
      << <<"A", "m", "B">>, <<"B">> >>,
      << <<"A", "B", "B", "C", "C", "C">> >>,
      << <<"B", "A">>, <<"C", "A">>, <<"A">> >>
    }

HelperMaxAttempts == { 2, 3, MAX_PUZZLE_ATTEMPTS }

RECURSIVE SeqsUpTo(_, _)
\* The sequences over S of length 0..n.
SeqsUpTo(S, n) ==
    IF n = 0 THEN { <<>> }
    ELSE LET shorter == SeqsUpTo(S, n - 1)
         IN  shorter \cup { Append(q, x) : q \in shorter, x \in S }

HelperDistributions ==
    SeqsUpTo({ [char |-> ch, cumulativeFreq |-> Rat(k, CumDen)] :
                 ch \in HelperGraphemes, k \in 0..CumDen },
             MaxEntries)

\* The values of random() tried on a distribution: one for each outcome of
\* the comparisons with its cumulative frequencies.
Draws(distribution) ==
    IF Len(distribution) = 0 THEN RandomValues(1)
    ELSE RandomValues(distribution[Len(distribution)].cumulativeFreq.den)

InitSampler ==
    /\ words \in DistributionWordLists
    /\ segmenter \in (IF HasExtend(words) THEN BOOLEAN ELSE {TRUE})
    /\ gridSize = 1
    /\ grid = None
    /\ allowBackwards = FALSE
    /\ pc = "helper"
    /\ puzzleAttempt = 0
    /\ result = None
    /\ calls = 0
    /\ caught = <<>>
    /\ processedWords = <<>>
    /\ wordPositions = <<>>
    /\ charDistribution = <<>>
    /\ wordIndex = 0
    /\ fillAt = 0
    /\ ret = None
    /\ thrown = Null
    /\ previous = None
    /\ call = None
    /\ AppMounted /\ NoPdf

SamplerFrame ==
    UNCHANGED <<args, puzzleAttempt, result, calls, caught, processedWords, grid,
                wordPositions, wordIndex, fillAt, ret, thrown, previous>>

\* getDirections(allowBackwards)
CallGetDirections ==
    /\ pc = "helper"
    /\ \E backwards \in BOOLEAN :
          call' = Some([op |-> "getDirections", backwards |-> backwards,
                        returned |-> getDirections(backwards)])
    /\ pc' = "called"
    /\ UNCHANGED charDistribution
    /\ SamplerFrame
    /\ UNCHANGED <<app, pdf>>

\* calculateCharacterDistribution(words, attemptNumber, maxAttempts)
CallCalculateCharacterDistribution ==
    /\ pc = "helper"
    /\ \E maxAttempts \in HelperMaxAttempts :
          \E attemptNumber \in 0..(maxAttempts - 1) :
             LET distribution ==
                     calculateCharacterDistribution(words, attemptNumber, maxAttempts)
             IN  /\ charDistribution' = distribution
                 /\ call' = Some([op |-> "calculateCharacterDistribution",
                                  attemptNumber |-> attemptNumber,
                                  maxAttempts |-> maxAttempts,
                                  returned |-> distribution])
    /\ pc' = "built"
    /\ SamplerFrame
    /\ UNCHANGED <<app, pdf>>

\* selectCharFromDistribution(distribution, random), the distribution written
\* by hand (pc = "helper") or the one just built (pc = "built").
CallSelectCharFromDistribution ==
    /\ pc \in {"helper", "built"}
    /\ \E distribution \in (IF pc = "built" THEN {charDistribution}
                             ELSE HelperDistributions) :
          \E randomValue \in Draws(distribution) :
             call' = Some([op |-> "selectCharFromDistribution",
                           distribution |-> distribution,
                           randomValue |-> randomValue,
                           built |-> (pc = "built"),
                           returned |-> selectCharFromDistribution(distribution,
                                                                   randomValue)])
    /\ pc' = "called"
    /\ UNCHANGED charDistribution
    /\ SamplerFrame
    /\ UNCHANGED <<app, pdf>>

NextSampler ==
    \/ CallGetDirections
    \/ CallCalculateCharacterDistribution
    \/ CallSelectCharFromDistribution

SpecSampler == InitSampler /\ [][NextSampler]_vars

(***************************************************************************)
(* The mutate-and-restore engine (src/src/utils/wordSearch.ts): the grid   *)
(* starts full of random graphemes of the words, canPlaceWord writes the   *)
(* word, counts the occurrences of every word and restores the grid, and   *)
(* placeWord overwrites whatever the cells hold.                           *)
(***************************************************************************)
\* The word lists this engine is called with.
WSWordLists ==
    { <<>>,                                    \* no word
      << <<" ">>, <<>> >>,                     \* only empty words
      << <<"A", "B", "A">> >>,                 \* longer than a small grid
      << <<"A">> >>,
      << <<"A", " ", "B">> >>,
      << <<"A", "A">>, <<"A", "B">> >>
    }

\* What a cell holds when there is no grapheme to fill it with: fillChars[0]
\* of an empty array.
UNDEFINED == <<"undefined">>

forwardDirections == << <<0, 1>>, <<1, 0>>, <<1, 1>>, <<-1, 1>> >>
backwardDirections == << <<0, -1>>, <<-1, 0>>, <<-1, -1>>, <<1, -1>> >>

directions ==
    IF allowBackwards THEN forwardDirections \o backwardDirections ELSE forwardDirections

\* chars match searchGrid from (row, col) along the k-th direction
\* (wordSearch.ts:67-85).
MatchesAt(chars, searchGrid, row, col, k) ==
    LET dRow == directions[k][1]
        dCol == directions[k][2]
        endRow == row + dRow * (Len(chars) - 1)
        endCol == col + dCol * (Len(chars) - 1)
    IN  /\ ~(endRow >= gridSize \/ endRow < 0 \/ endCol >= gridSize \/ endCol < 0)
        /\ \A i \in 0..(Len(chars) - 1) :
               searchGrid[row + dRow * i][col + dCol * i] = chars[i + 1]

findWordOccurrences(word, searchGrid) ==
    LET chars == splitGraphemes(word)
    IN  Cardinality({ rck \in (0..(gridSize - 1)) \X (0..(gridSize - 1))
                                \X (1..Len(directions)) :
                        MatchesAt(chars, searchGrid, rck[1], rck[2], rck[3]) })

\* g with chars written from (row, col) along (dRow, dCol), whatever the
\* cells held (wordSearch.ts:126-128 and 153-156).
WriteWord(chars, g, row, col, dRow, dCol) ==
    [r \in DOMAIN g |-> [c \in DOMAIN g |->
        IF \E i \in 0..(Len(chars) - 1) : r = row + dRow * i /\ c = col + dCol * i
        THEN chars[1 + CHOOSE i \in 0..(Len(chars) - 1) :
                           r = row + dRow * i /\ c = col + dCol * i]
        ELSE g[r][c]]]

\* A canPlaceWord that restores the grid only when it rejects the placement.
canPlaceWord_KeepsAcceptedWord(word, g, row, col, dRow, dCol) ==
    LET chars == splitGraphemes(word)
        endRow == row + dRow * (Len(chars) - 1)
        endCol == col + dCol * (Len(chars) - 1)
    IN  IF endRow >= gridSize \/ endRow < 0 \/ endCol >= gridSize \/ endCol < 0
        THEN [grid |-> g, returned |-> FALSE]
        ELSE LET written == WriteWord(chars, g, row, col, dRow, dCol)
                 isValid == \A k \in 1..Len(processedWords) :
                                findWordOccurrences(processedWords[k], written) <= 1
             IN  [grid |-> IF isValid THEN written ELSE g, returned |-> isValid]

\* wordSearch.ts:111-142: what canPlaceWord returns, and the grid it leaves.
canPlaceWord(word, g, row, col, dRow, dCol) ==
    LET chars == splitGraphemes(word)
        endRow == row + dRow * (Len(chars) - 1)
        endCol == col + dCol * (Len(chars) - 1)
    IN  IF endRow >= gridSize \/ endRow < 0 \/ endCol >= gridSize \/ endCol < 0
        THEN [grid |-> g, returned |-> FALSE]
        ELSE LET tempGrid == [i \in DOMAIN g |-> [j \in DOMAIN g |-> g[i][j]]]
                 written == WriteWord(chars, g, row, col, dRow, dCol)
                 isValid == \A k \in 1..Len(processedWords) :
                                findWordOccurrences(processedWords[k], written) <= 1
                 restored == [i \in DOMAIN written |->
                                 IF i < gridSize THEN tempGrid[i] ELSE written[i]]
             IN  [grid |-> restored, returned |-> isValid]

\* wordSearch.ts:144-160: the grid placeWord leaves and the positions it records.
placeWordOver(word, g, row, col, dRow, dCol) ==
    LET chars == splitGraphemes(word)
    IN  [grid |-> WriteWord(chars, g, row, col, dRow, dCol),
         positions |-> [i \in 1..Len(chars) |->
                           Pos(row + dRow * (i - 1), col + dCol * (i - 1))]]

\* wordSearch.ts:95-102: the graphemes of the processed words.
fillChars ==
    UNION { { splitGraphemes(processedWords[k])[i] :
                i \in 1..countGraphemes(processedWords[k]) } :
            k \in 1..Len(processedWords) }

\* wordSearch.ts:105-107: the grids of random graphemes of the words; an
\* index into an empty fillChars reads undefined.
RandomGrids ==
    [0..(gridSize - 1) -> [0..(gridSize - 1) ->
        IF fillChars = {} THEN {UNDEFINED} ELSE fillChars]]

\* The (row, col, direction index) draws of wordSearch.ts:168-170.
PlacementDraws == (0..(gridSize - 1)) \X (0..(gridSize - 1)) \X (1..Len(directions))

\* The call of canPlaceWord at wordSearch.ts:172 for the draw rck.
TryDraw(word, g, rck) ==
    canPlaceWord(word, g, rck[1], rck[2], directions[rck[3]][1], directions[rck[3]][2])

WSInit ==
    /\ words \in WSWordLists
    /\ segmenter = TRUE
    /\ gridSize \in 1..MaxGridSize
    /\ allowBackwards \in BOOLEAN
    /\ pc = "ws_call"
    /\ puzzleAttempt = 0
    /\ result = None
    /\ calls = 0
    /\ caught = <<>>
    /\ processedWords = <<>>
    /\ grid = None
    /\ wordPositions = <<>>
    /\ charDistribution = <<>>
    /\ wordIndex = 0
    /\ fillAt = 0
    /\ ret = None
    /\ thrown = Null
    /\ previous = None
    /\ call = None
    /\ AppMounted /\ NoPdf

\* wordSearch.ts:27-38 and 198-199.
WSProcessWords ==
    /\ pc = "ws_call"
    /\ processedWords' = ProcessWords(words, gridSize)
    /\ pc' = "ws_loop"
    /\ UNCHANGED <<args, puzzleAttempt, result, calls, caught, grid, wordPositions,
                   charDistribution, wordIndex, fillAt, ret, thrown, previous, call>>
    /\ UNCHANGED <<app, pdf>>

\* wordSearch.ts:202 and 95-109: generatePuzzle is called and fills its grid.
WSGeneratePuzzleBegins ==
    /\ pc = "ws_loop"
    /\ calls' = calls + 1
    /\ grid' \in RandomGrids
    /\ wordPositions' = <<>>
    /\ wordIndex' = 1
    /\ pc' = IF Len(processedWords) = 0 THEN "ws_validating" ELSE "ws_placing"
    /\ UNCHANGED <<args, puzzleAttempt, result, caught, processedWords,
                   charDistribution, fillAt, ret, thrown, previous, call>>
    /\ UNCHANGED <<app, pdf>>

\* wordSearch.ts:164-177: some draw of the while loop is accepted, the draws
\* before it were rejected and left the grid as it was.
WSPlaceWord ==
    /\ pc = "ws_placing"
    /\ \E rck \in PlacementDraws :
          LET word == processedWords[wordIndex]
              tried == TryDraw(word, grid, rck)
              done == placeWordOver(word, tried.grid, rck[1], rck[2],
                                    directions[rck[3]][1], directions[rck[3]][2])
          IN  /\ tried.returned
              /\ grid' = done.grid
              /\ wordPositions' = Append(wordPositions,
                                         [word |-> word, positions |-> done.positions])
    /\ wordIndex' = wordIndex + 1
    /\ pc' = IF wordIndex = Len(processedWords) THEN "ws_validating" ELSE "ws_placing"
    /\ UNCHANGED <<args, puzzleAttempt, result, calls, caught, processedWords,
                   charDistribution, fillAt, ret, thrown, previous, call>>
    /\ UNCHANGED <<app, pdf>>

\* wordSearch.ts:167-181: the 1000 draws were all rejected (some draw is
\* one canPlaceWord rejects), allWordsPlaced becomes false: from then on
\* wordPositions has fewer entries than processedWords.
WSWordNotPlaced ==
    /\ pc = "ws_placing"
    /\ \E rck \in PlacementDraws :
          ~TryDraw(processedWords[wordIndex], grid, rck).returned
    /\ wordIndex' = wordIndex + 1
    /\ pc' = IF wordIndex = Len(processedWords) THEN "ws_validating" ELSE "ws_placing"
    /\ UNCHANGED <<args, puzzleAttempt, result, calls, caught, processedWords, grid,
                   wordPositions, charDistribution, fillAt, ret, thrown, previous, call>>
    /\ UNCHANGED <<app, pdf>>

\* wordSearch.ts:185-188
WSFinalCheck(g) ==
    \A k \in 1..Len(processedWords) : findWordOccurrences(processedWords[k], g) = 1

\* wordSearch.ts:185-194 and 202-214: the final validation, the end of the
\* generatePuzzle call, puzzleAttempt++, and the test of the do-while loop
\* with what follows it.
WSValidate ==
    /\ pc = "ws_validating"
    /\ LET allWordsPlaced == Len(wordPositions) = Len(processedWords)
           isValid == WSFinalCheck(grid)
           res == [grid |-> grid, wordPositions |-> wordPositions,
                   isValid |-> isValid /\ allWordsPlaced]
       IN  /\ result' = Some(res)
           /\ puzzleAttempt' = puzzleAttempt + 1
           /\ IF res.isValid
              THEN /\ pc' = "returned"
                   /\ ret' = Some([grid |-> res.grid, words |-> processedWords,
                                   wordPositions |-> res.wordPositions])
                   /\ thrown' = thrown
              ELSE IF puzzleAttempt + 1 < MAX_PUZZLE_ATTEMPTS
              THEN /\ pc' = "ws_loop"
                   /\ UNCHANGED <<ret, thrown>>
              ELSE /\ pc' = "threw"
                   /\ thrown' = ExhaustedError
                   /\ ret' = ret
    /\ grid' = None
    /\ wordPositions' = <<>>
    /\ wordIndex' = 0
    /\ UNCHANGED <<args, calls, caught, processedWords, charDistribution, fillAt,
                   previous, call>>
    /\ UNCHANGED <<app, pdf>>

WSNext ==
    \/ WSProcessWords
    \/ WSGeneratePuzzleBegins
    \/ WSPlaceWord
    \/ WSWordNotPlaced
    \/ WSValidate

SpecRestore == WSInit /\ [][WSNext]_vars

(***************************************************************************)
(* canPlaceWord of wordSearch.ts called on its own, on a grid generatePuzzle*)
(* can hold: every cell a grapheme of the processed words.                 *)
(***************************************************************************)
CanPlaceWordLists ==
    { << <<"A">> >>,
      << <<"A", "B">> >>,
      << <<"A", "A">>, <<"A", "B">> >>,
      << <<"A", "B", "A">>, <<"B">> >> }

InitCanPlaceWord ==
    /\ words \in CanPlaceWordLists
    /\ segmenter = TRUE
    /\ gridSize \in 1..MaxGridSize
    /\ allowBackwards \in BOOLEAN
    /\ pc = "ws_placing"
    /\ puzzleAttempt = 0
    /\ result = None
    /\ calls = 1
    /\ caught = <<>>
    /\ processedWords = ProcessWords(words, gridSize)
    /\ Len(processedWords) > 0
    /\ grid \in RandomGrids
    /\ wordPositions = <<>>
    /\ charDistribution = <<>>
    /\ wordIndex = 1
    /\ fillAt = 0
    /\ ret = None
    /\ thrown = Null
    /\ previous = None
    /\ call = None
    /\ AppMounted /\ NoPdf

\* wordSearch.ts:172: one call of canPlaceWord.
CallCanPlaceWord ==
    /\ pc = "ws_placing"
    /\ \E k \in 1..Len(processedWords), rck \in PlacementDraws :
          LET word == processedWords[k]
              tried == TryDraw(word, grid, rck)
          IN  /\ call' = Some([op |-> "canPlaceWord", word |-> word, row |-> rck[1],
                               col |-> rck[2], direction |-> directions[rck[3]],
                               before |-> grid, returned |-> tried.returned])
              /\ grid' = tried.grid
    /\ pc' = "called"
    /\ UNCHANGED <<args, puzzleAttempt, result, calls, caught, processedWords,
                   wordPositions, charDistribution, wordIndex, fillAt, ret, thrown,
                   previous>>
    /\ UNCHANGED <<app, pdf>>

NextCanPlaceWord == CallCanPlaceWord

SpecCanPlaceWord == InitCanPlaceWord /\ [][NextCanPlaceWord]_vars

(***************************************************************************)
(* The App (src/unnamed/part_000), which calls the engine of part_004. A   *)
(* host without Intl.Segmenter cannot render it (part_000:78 calls         *)
(* segmenter.segment), so segmenter is TRUE here.                          *)
(***************************************************************************)
MaxInputLength == 12     \* graphemes of the longest word typed
MaxLines == 21           \* words of the longest list typed

InitialGridSize == 20
DefaultMinimum == 10
SliderMax == 100
GenerationFailed == "Failed to generate puzzle. Try changing the grid size or the number of words."
PdfFailed == "Failed to generate PDF. Please try again."

Rep(c, n) == [i \in 1..n |-> c]

LetterNames == <<"A", "B", "C", "D", "E", "F", "G", "H", "I", "J", "K", "L", "M",
                 "N", "O", "P", "Q", "R", "S", "T", "U", "V", "W", "X", "Y", "Z">>

RECURSIVE LinesOf(_, _)
\* n lines, the i-th made of len times the i-th letter.
LinesOf(n, len) ==
    IF n = 0 THEN <<>>
    ELSE IF n = 1 THEN Rep(LetterNames[1], len)
    ELSE LinesOf(n - 1, len) \o <<"\n">> \o Rep(LetterNames[n], len)

\* The texts typed into the textarea.
WordInputs ==
    { <<>>,
      <<",">>,
      <<"A", "m", ",", "\n", " ", "B", " ", "C", " ">>,
      Rep("A", MaxInputLength),
      Rep("A", DefaultMinimum) \o <<"m", " ", "m">>,
      LinesOf(MaxLines, InitialGridSize)
    }

IsSeparator(c) == c \in {",", "\n"}

\* The non-empty pieces of text.split(/[\n,]+/), in order: the maximal runs
\* without a separator. (split also yields an empty piece before a leading
\* and after a trailing separator; the filter of part_000:74 and 91 drops it.)
Split(text) ==
    LET starts == { i \in 1..Len(text) :
                      /\ ~IsSeparator(text[i])
                      /\ i = 1 \/ IsSeparator(text[i - 1]) }
        ends == { j \in 1..Len(text) :
                    /\ ~IsSeparator(text[j])
                    /\ j = Len(text) \/ IsSeparator(text[j + 1]) }
        EndOf(i) == CHOOSE j \in ends : j >= i /\ \A k \in ends : k >= i => j <= k
        Nth(n) == CHOOSE i \in starts : Cardinality({ j \in starts : j < i }) = n - 1
    IN  [n \in 1..Cardinality(starts) |-> SubSeq(text, Nth(n), EndOf(Nth(n)))]

RECURSIVE TrimStart(_)
TrimStart(text) ==
    IF text # <<>> /\ (IsWhitespace(Head(text)) \/ Head(text) = "\n")
    THEN TrimStart(Tail(text))
    ELSE text

\* String.prototype.trim
Trim(text) == Reverse(TrimStart(Reverse(TrimStart(text))))

\* part_000:71-74 and 88-91
ParseWords(text) ==
    LET pieces == Split(text)
        trimmed == [i \in 1..Len(pieces) |-> Trim(pieces[i])]
    IN  SelectSeq(trimmed, LAMBDA w : Len(w) > 0)

MaxOf(S) == CHOOSE x \in S : \A y \in S : y <= x

\* part_000:69-84
minGridSize ==
    LET currentWords == ParseWords(wordInput)
    IN  MaxOf({ countGraphemes(currentWords[i]) : i \in 1..Len(currentWords) }
              \cup { countGraphemes(words[i]) : i \in 1..Len(words) }
              \cup { DefaultMinimum })

\* src/src/App.tsx:14-26: the same with word.length, the number of code units.
minGridSizeByLength ==
    LET currentWords == ParseWords(wordInput)
    IN  MaxOf({ Len(currentWords[i]) : i \in 1..Len(currentWords) }
              \cup { Len(words[i]) : i \in 1..Len(words) }
              \cup { DefaultMinimum })

\* More than size words fill a whole line of the grid and share no grapheme
\* with any other such word: two lines of the full length cross in a cell
\* unless they are parallel, canPlaceWordAt (part_004:173) refuses a cell that
\* holds another grapheme, so at most size of them are placed and every
\* attempt fails.
Crowded(wordList, size) ==
    LET chars(i) == LET graphemes == splitGraphemes(StripWhitespace(wordList[i]))
                    IN  { graphemes[k] : k \in 1..Len(graphemes) }
        full == { i \in 1..Len(wordList) :
                    countGraphemes(StripWhitespace(wordList[i])) = size }
        apart == { i \in full : \A j \in full : i # j => chars(i) \cap chars(j) = {} }
    IN  Cardinality(apart) > size

RECURSIVE SumTo(_, _)
\* counts[1] + ... + counts[k]
SumTo(counts, k) == IF k = 0 THEN 0 ELSE SumTo(counts, k - 1) + counts[k]

\* Every processed word finds the grid too empty to be refused: to refuse a
\* word of n graphemes in every window of a row (part_004:132-138, direction
\* right) each row needs size \div n occupied cells, and the words placed
\* before it occupy fewer cells than that.
Roomy(wordList, size) ==
    LET placed == ProcessWords(wordList, size)
        counts == [k \in 1..Len(placed) |-> countGraphemes(placed[k])]
    IN  \A k \in 1..Len(placed) : SumTo(counts, k - 1) < size * (size \div counts[k])

\* How the call generateWordSearch(wordList, size, ...) of part_000:100 ends:
\* a crowded list never fits, a roomy list always does, between the two it
\* depends on the random draws of the ten attempts.
GenerateOutcomes(wordList, size) ==
    IF Crowded(wordList, size) THEN {"threw"}
    ELSE IF Roomy(wordList, size) THEN {"returned"}
    ELSE {"returned", "threw"}

\* The values the slider of part_000:413-421 hands to onChange.
SliderValues == { v \in {minGridSize, SliderMax} :
                    minGridSize <= v /\ v <= SliderMax }

EngineIdle ==
    /\ segmenter = TRUE
    /\ puzzleAttempt = 0
    /\ result = None
    /\ calls = 0
    /\ caught = <<>>
    /\ processedWords = <<>>
    /\ grid = None
    /\ wordPositions = <<>>
    /\ charDistribution = <<>>
    /\ wordIndex = 0
    /\ fillAt = 0
    /\ ret = None
    /\ thrown = Null
    /\ previous = None

\* part_000:27-38
InitApp ==
    /\ EngineIdle
    /\ AppMounted
    /\ NoPdf
    /\ gridSize = InitialGridSize
    /\ words = <<>>
    /\ allowBackwards = FALSE
    /\ pc = "app"
    /\ call = None

\* What no handler of the App touches. In the App, call is the call of
\* generateWordSearch the last step made, if it made one.
AppFrame ==
    UNCHANGED <<segmenter, puzzleAttempt, result, calls, caught, locals, ret, thrown,
                previous, pdf, pc>>

\* part_000:398: onChange of the textarea.
ChangeWordInput ==
    /\ pc = "app"
    /\ wordInput' \in WordInputs \ {wordInput}
    /\ UNCHANGED <<words, gridSize, allowBackwards, puzzle, error, showAnswers,
                   isUpperCase>>
    /\ call' = None
    /\ AppFrame

\* part_000:413-421: onChange of the slider.
ChangeGridSize ==
    /\ pc = "app"
    /\ gridSize' \in SliderValues \ {gridSize}
    /\ UNCHANGED <<words, wordInput, allowBackwards, puzzle, error, showAnswers,
                   isUpperCase>>
    /\ call' = None
    /\ AppFrame

\* part_000:432-437
ToggleAllowBackwards ==
    /\ pc = "app"
    /\ allowBackwards' = ~allowBackwards
    /\ UNCHANGED <<words, wordInput, gridSize, puzzle, error, showAnswers,
                   isUpperCase>>
    /\ call' = None
    /\ AppFrame

\* part_000:493-499: the button is rendered with the puzzle.
ToggleIsUpperCase ==
    /\ pc = "app"
    /\ puzzle # None
    /\ isUpperCase' = ~isUpperCase
    /\ UNCHANGED <<words, wordInput, gridSize, allowBackwards, puzzle, error,
                   showAnswers>>
    /\ call' = None
    /\ AppFrame

\* part_000:500-510
ToggleShowAnswers ==
    /\ pc = "app"
    /\ puzzle # None
    /\ showAnswers' = ~showAnswers
    /\ UNCHANGED <<words, wordInput, gridSize, allowBackwards, puzzle, error,
                   isUpperCase>>
    /\ call' = None
    /\ AppFrame

\* part_000:357-368: the X of the error popup.
DismissError ==
    /\ pc = "app"
    /\ error # Null
    /\ error' = Null
    /\ UNCHANGED <<words, wordInput, gridSize, allowBackwards, puzzle, showAnswers,
                   isUpperCase>>
    /\ call' = None
    /\ AppFrame

\* A handleSubmit that passes the grid size of the slider as it is.
handleSubmit_SliderSize ==
    /\ pc = "app"
    /\ Trim(wordInput) # <<>>
    /\ LET newWords == ParseWords(wordInput)
           effectiveGridSize == gridSize
       IN  IF Len(newWords) > 0
           THEN /\ words' = newWords
                /\ gridSize' = effectiveGridSize
                /\ call' = Some([op |-> "generateWordSearch", words |-> newWords,
                                 gridSize |-> effectiveGridSize,
                                 allowBackwards |-> allowBackwards])
                /\ \E outcome \in GenerateOutcomes(newWords, effectiveGridSize) :
                      IF outcome = "returned"
                      THEN /\ puzzle' = Some([words |-> newWords,
                                              size |-> effectiveGridSize])
                           /\ error' = Null
                      ELSE /\ error' = GenerationFailed
                           /\ puzzle' = puzzle
           ELSE /\ call' = None
                /\ UNCHANGED <<words, gridSize, puzzle, error>>
    /\ UNCHANGED <<wordInput, allowBackwards, showAnswers, isUpperCase>>
    /\ AppFrame

\* part_000:86-106; the button is disabled while wordInput.trim() is empty
\* (part_000:447). The puzzle is held by its words and the size of its grid.
handleSubmit ==
    /\ pc = "app"
    /\ Trim(wordInput) # <<>>
    /\ LET newWords == ParseWords(wordInput)
           effectiveGridSize == MaxOf({gridSize, minGridSize})
       IN  IF Len(newWords) > 0
           THEN /\ words' = newWords
                /\ gridSize' = effectiveGridSize
                /\ call' = Some([op |-> "generateWordSearch", words |-> newWords,
                                 gridSize |-> effectiveGridSize,
                                 allowBackwards |-> allowBackwards])
                /\ \E outcome \in GenerateOutcomes(newWords, effectiveGridSize) :
                      IF outcome = "returned"
                      THEN /\ puzzle' = Some([words |-> newWords,
                                              size |-> effectiveGridSize])
                           /\ error' = Null
                      ELSE /\ error' = GenerationFailed
                           /\ puzzle' = puzzle
           ELSE /\ call' = None
                /\ UNCHANGED <<words, gridSize, puzzle, error>>
    /\ UNCHANGED <<wordInput, allowBackwards, showAnswers, isUpperCase>>
    /\ AppFrame

NextApp ==
    \/ ChangeWordInput
    \/ ChangeGridSize
    \/ ToggleAllowBackwards
    \/ ToggleIsUpperCase
    \/ ToggleShowAnswers
    \/ DismissError
    \/ handleSubmit

SpecApp == InitApp /\ [][NextApp]_vars

(***************************************************************************)
(* generatePDF of the App (part_000:109-332): the layout of the word list  *)
(* and its pagination loop. Lengths are in units of 1/10000 point, in      *)
(* which every length of the source is a whole number.                     *)
(***************************************************************************)
MaxPdfWords == 50        \* words of the largest puzzle printed
MaxWordGraphemes == 27   \* graphemes of its longest word
MaxPages == 3            \* pages added before the model stops following the loop

UnitsPerPoint == 10000
pageWidth == 5952760
pageHeight == 8418900
margins == 30 * UnitsPerPoint
titleSize == 24 * UnitsPerPoint
subtitleSize == 10 * UnitsPerPoint
wordSize == 16 * UnitsPerPoint
maxColumns == 5
availableWidth == pageWidth - 2 * margins
availableHeight == pageHeight - 2 * margins
startY == pageHeight - margins - titleSize - subtitleSize - 15 * UnitsPerPoint
wordSpacing == (wordSize * 15) \div 10

\* part_000:152-156: cellSize * puzzle.grid.length, which is the smaller
\* numerator again, whatever the length of the grid.
gridWidth == Min((availableWidth * 9) \div 10, (availableHeight * 6) \div 10)

\* part_000:41-44: the text has a grapheme of more than one code unit.
isEmoji(text) == countGraphemes(text) # Len(text)

\* helvetica.widthOfTextAtSize(word, wordSize) comes from the font metrics of
\* pdf-lib: the advance of a glyph is taken as half an em or a whole em.
GlyphAdvances == { wordSize \div 2, wordSize }

RECURSIVE MaxWidthFrom(_, _, _, _)
\* part_000:219-227: the loop of getLongestWordWidth from the i-th word on.
MaxWidthFrom(wordList, i, advance, maxWidth) ==
    IF i > Len(wordList) THEN maxWidth
    ELSE MaxWidthFrom(wordList, i + 1, advance,
             Max(maxWidth,
                 IF isEmoji(wordList[i])
                 THEN (countGraphemes(wordList[i]) * wordSize * 12) \div 10
                 ELSE Len(wordList[i]) * advance))

\* part_000:218-229
getLongestWordWidth(wordList, advance) == MaxWidthFrom(wordList, 1, advance, 0) + wordSize

\* part_000:232
columnWidth(wordList, advance) ==
    Max(getLongestWordWidth(wordList, advance) + 20 * UnitsPerPoint,
        availableWidth \div maxColumns)

\* part_000:237-245
wordsPerColumn(first) ==
    LET pageStartY == IF first THEN startY - gridWidth - 40 * UnitsPerPoint
                      ELSE pageHeight - margins
        pageAvailableHeight == IF first THEN pageStartY - margins
                               ELSE pageHeight - 2 * margins
    IN  pageAvailableHeight \div wordSpacing

\* part_000:246-301: the words one call of drawWordsOnPage draws.
wordsDrawnFrom(startIndex, first, columns, wordList) ==
    LET maxWordsPerPage == wordsPerColumn(first) * columns
    IN  Min(maxWordsPerPage, Max(Len(wordList) - startIndex, 0))

\* An emoji word of n graphemes, each of two code points.
EmojiWord(n) == [i \in 1..(2 * n) |-> IF i % 2 = 1 THEN "A" ELSE "m"]

\* The words of the puzzles printed: count times the same word.
PdfWordLists ==
    { [i \in 1..count |-> word] :
        count \in 1..MaxPdfWords,
        word \in { Rep("A", 1), Rep("A", MaxWordGraphemes),
                   EmojiWord(1), EmojiWord(MaxWordGraphemes - 1),
                   EmojiWord(MaxWordGraphemes) } }

\* part_000:86-106: the App after a submit of these words that returned a
\* puzzle, the textarea cleared since.
InitPdf ==
    /\ EngineIdle
    /\ NoPdf
    /\ words \in PdfWordLists
    /\ wordInput = <<>>
    /\ gridSize = Max(InitialGridSize, countGraphemes(words[1]))
    /\ puzzle = Some([words |-> words, size |-> gridSize])
    /\ error = Null
    /\ showAnswers = FALSE
    /\ isUpperCase = FALSE
    /\ allowBackwards = FALSE
    /\ pc = "app"
    /\ call = None

PdfFrame ==
    UNCHANGED <<args, puzzleAttempt, result, calls, caught, locals, ret, thrown,
                previous, wordInput, puzzle, showAnswers, isUpperCase>>

\* part_000:109-233 and 305-307: the click on Download PDF, up to the loop.
GeneratePDFBegins ==
    /\ pc = "app"
    /\ puzzle # None
    /\ \E advance \in GlyphAdvances :
          numColumns' = Min(maxColumns,
                            availableWidth \div columnWidth(puzzle[1].words, advance))
    /\ currentWordIndex' = 0
    /\ isFirstPage' = TRUE
    /\ pageCount' = 1
    /\ pc' = "pdf_loop"
    /\ call' = None
    /\ error' = error
    /\ PdfFrame

\* part_000:309-316: one iteration of the while loop.
DrawWordsOnPage ==
    /\ pc = "pdf_loop"
    /\ currentWordIndex < Len(puzzle[1].words)
    /\ pageCount < MaxPages
    /\ LET wordsDrawn == wordsDrawnFrom(currentWordIndex, isFirstPage, numColumns,
                                        puzzle[1].words)
       IN  /\ call' = Some([op |-> "drawWordsOnPage", startIndex |-> currentWordIndex,
                            isFirstPage |-> isFirstPage, wordsDrawn |-> wordsDrawn])
           /\ currentWordIndex' = currentWordIndex + wordsDrawn
           /\ IF currentWordIndex + wordsDrawn < Len(puzzle[1].words)
              THEN /\ pageCount' = pageCount + 1
                   /\ isFirstPage' = FALSE
              ELSE UNCHANGED <<pageCount, isFirstPage>>
    /\ UNCHANGED <<pc, numColumns, error>>
    /\ PdfFrame

\* part_000:319-327: the loop has ended, the file is saved.
SavePDF ==
    /\ pc = "pdf_loop"
    /\ ~(currentWordIndex < Len(puzzle[1].words))
    /\ pc' = "pdf_saved"
    /\ call' = None
    /\ UNCHANGED <<pdf, error>>
    /\ PdfFrame

\* part_000:328-331: pdf-lib or the download fails, the catch reports it.
GeneratePDFFails ==
    /\ pc = "pdf_loop"
    /\ error' = PdfFailed
    /\ pc' = "pdf_failed"
    /\ call' = None
    /\ UNCHANGED pdf
    /\ PdfFrame

NextPdf ==
    \/ GeneratePDFBegins
    \/ DrawWordsOnPage
    \/ SavePDF
    \/ GeneratePDFFails

SpecPdf == InitPdf /\ [][NextPdf]_vars

(***************************************************************************)
(* Properties.                                                             *)
(***************************************************************************)
\* An input word is accepted: stripped of whitespace it has 1..gridSize graphemes.
Accepted(w) ==
    /\ countGraphemes(StripWhitespace(w)) >= 1
    /\ countGraphemes(StripWhitespace(w)) <= gridSize

NoAcceptedWord == \A i \in 1..Len(words) : ~Accepted(words[i])

AcceptedWords == { StripWhitespace(words[i]) : i \in { j \in 1..Len(words) : Accepted(words[j]) } }

ValidResult == result # None /\ result[1].isValid

EightDirections == ((-1..1) \X (-1..1)) \ { <<0, 0>> }

\* chars reads in g from (r, c) along the step d.
ReadsAt(chars, g, r, c, d) ==
    \A i \in 1..Len(chars) :
        /\ r + d[1] * (i - 1) \in DOMAIN g
        /\ c + d[2] * (i - 1) \in DOMAIN g
        /\ g[r + d[1] * (i - 1)][c + d[2] * (i - 1)] = chars[i]

\* The occurrences of word in g: the cell sequences, from any start cell along
\* any of the 8 directions, that read it (a one-grapheme word occurs once in
\* a cell, not once for each direction).
OccurrenceCount(word, g) ==
    LET chars == splitGraphemes(word)
        reads == { rcd \in (DOMAIN g) \X (DOMAIN g) \X EightDirections :
                     ReadsAt(chars, g, rcd[1], rcd[2], rcd[3]) }
    IN  Cardinality({ [i \in 1..Len(chars) |->
                          Pos(rcd[1] + rcd[3][1] * (i - 1), rcd[2] + rcd[3][2] * (i - 1))] :
                      rcd \in reads })

\* C1: in every grid generateWordSearch returns, every accepted word occurs
\* exactly once, counted over every start cell and the 8 directions.
C1_EachWordExactlyOnce ==
    ret # None => \A w \in AcceptedWords : OccurrenceCount(w, ret[1].grid) = 1

\* C2: with no accepted word generateWordSearch fails with the NoValidWords
\* error, not the attempts-exhausted one, and no retry is consumed.
C2_NoValidWordsIsFatal ==
    NoAcceptedWord =>
        /\ puzzleAttempt = 0
        /\ thrown # ExhaustedError
        /\ pc \in {"returned", "threw"} => thrown = NoValidWordsError

\* C3: with no accepted word every generatePuzzle call throws 'No valid words
\* provided', and no grid is created and no word placed.
C3_GeneratePuzzleThrowsNoValidWords ==
    NoAcceptedWord =>
        /\ Len(caught) = calls
        /\ \A i \in 1..Len(caught) : caught[i] = NoValidWordsError
        /\ grid = None
        /\ wordPositions = <<>>
        /\ result = None
        /\ ret = None

C3_Witness ==
    /\ NoAcceptedWord
    /\ calls >= 1
    /\ \E i \in 1..Len(words) : countGraphemes(StripWhitespace(words[i])) > gridSize

\* The steps generateWordSearch has left at most: it falls with every step.
StepsPerAttempt == Len(words) + gridSize * gridSize + 2

Rank ==
    CASE pc = "loop" -> (MAX_PUZZLE_ATTEMPTS - puzzleAttempt) * StepsPerAttempt + 1
      [] pc = "placing" ->
            (MAX_PUZZLE_ATTEMPTS - puzzleAttempt - 1) * StepsPerAttempt + 1
            + (Len(processedWords) - wordIndex + 1) + gridSize * gridSize
      [] pc = "filling" ->
            (MAX_PUZZLE_ATTEMPTS - puzzleAttempt - 1) * StepsPerAttempt + 1
            + (gridSize * gridSize - fillAt)
      [] OTHER -> 0

\* The guard of some step of Next holds.
CanStep ==
    \/ pc = "loop"
    \/ pc = "placing" /\ wordIndex \in 1..Len(processedWords) /\ Tries # {}
    \/ pc = "filling" /\ fillAt \in 0..(gridSize * gridSize - 1) /\ Fills # {}

C4_Safety ==
    /\ calls <= MAX_PUZZLE_ATTEMPTS
    /\ Rank >= 0
    /\ pc \notin {"returned", "threw"} => CanStep
    /\ pc = "returned" => /\ ret # None
                          /\ ValidResult
                          /\ ret[1].grid = result[1].grid
                          /\ ret[1].wordPositions = result[1].wordPositions
    /\ ret # None => pc = "returned"
    /\ pc = "threw" => /\ calls = MAX_PUZZLE_ATTEMPTS
                       /\ thrown = ExhaustedError
                       /\ ~ValidResult
    /\ thrown # Null => pc = "threw"

\* C4: generateWordSearch ends after at most 10 calls of generatePuzzle, by
\* returning the result of a valid attempt or, the 10th attempt failed, by
\* throwing 'Could not generate a valid puzzle'; it never returns a result
\* that is not valid.
C4_EndsWithinTenCalls == []C4_Safety /\ [][Rank' < Rank]_vars

C4_Witness ==
    /\ pc = "threw"
    /\ calls = MAX_PUZZLE_ATTEMPTS
    /\ result # None

\* C5: in a valid result every entry of wordPositions has one position for
\* each grapheme of its word, each inside the grid.
C5_PositionsMatchGraphemes ==
    ValidResult =>
        \A i \in 1..Len(result[1].wordPositions) :
            LET wp == result[1].wordPositions[i]
            IN  /\ Len(wp.positions) = countGraphemes(wp.word)
                /\ \A k \in 1..Len(wp.positions) :
                       /\ 0 <= wp.positions[k].row /\ wp.positions[k].row < gridSize
                       /\ 0 <= wp.positions[k].col /\ wp.positions[k].col < gridSize

\* A word of two code points placed as one grapheme, in one cell.
C5_Witness ==
    /\ ValidResult
    /\ \E i \in 1..Len(result[1].wordPositions) :
          /\ result[1].wordPositions[i].word = <<"A", "m">>
          /\ Len(result[1].wordPositions[i].positions) = 1

\* The cells the placements of a result wrote.
WrittenCells(res) ==
    UNION { { res.wordPositions[i].positions[k] :
                k \in 1..Len(res.wordPositions[i].positions) } :
            i \in 1..Len(res.wordPositions) }

\* C6: in a valid result the grid is gridSize x gridSize and no cell holds
\* the empty sentinel.
C6_GridIsFull ==
    ValidResult =>
        /\ DOMAIN result[1].grid = 0..(gridSize - 1)
        /\ \A r \in 0..(gridSize - 1) :
               /\ DOMAIN result[1].grid[r] = 0..(gridSize - 1)
               /\ \A c \in 0..(gridSize - 1) : result[1].grid[r][c] # EMPTY

C6_Witness ==
    /\ ValidResult
    /\ gridSize = 2
    /\ Pos(1, 1) \notin WrittenCells(result[1])
    /\ Pos(0, 0) \notin WrittenCells(result[1])

\* C7: two calls of generateWordSearch with the same arguments return the
\* same grid and the same wordPositions.
C7_SameArgumentsSameResult ==
    (previous # None /\ ret # None) =>
        /\ ret[1].grid = previous[1].grid
        /\ ret[1].wordPositions = previous[1].wordPositions

\* C8: the words generateWordSearch returns are the accepted words, stripped
\* of whitespace: the words that have an entry in wordPositions.
C8_WordsArePostFilter ==
    ret # None =>
        /\ \A i \in 1..Len(ret[1].words) :
               /\ ret[1].words[i] = StripWhitespace(ret[1].words[i])
               /\ countGraphemes(ret[1].words[i]) \in 1..gridSize
        /\ { ret[1].words[i] : i \in 1..Len(ret[1].words) }
             = { ret[1].wordPositions[i].word : i \in 1..Len(ret[1].wordPositions) }

\* The graphemes a call writes or compares, in the order of the ray, and the
\* i-th cell of the ray (i from 1).
CallChars(c) ==
    IF c.direction.isBackward THEN Reverse(splitGraphemes(c.word))
    ELSE splitGraphemes(c.word)

RayCell(c, i) ==
    Pos(c.pos.row + c.direction.dRow * (i - 1), c.pos.col + c.direction.dCol * (i - 1))

\* C9: placeWord writes the graphemes of the word, reversed when isBackward,
\* into the cells of the ray from pos, returns those cells in write order, and
\* leaves every other cell as it was.
C9_PlaceWordWritesRay ==
    (call # None /\ call[1].op = "placeWord") =>
        LET c == call[1]
            chars == CallChars(c)
        IN  /\ c.returned = [i \in 1..Len(chars) |-> RayCell(c, i)]
            /\ DOMAIN grid = DOMAIN c.before
            /\ \A r \in DOMAIN grid :
                   /\ DOMAIN grid[r] = DOMAIN c.before[r]
                   /\ \A col \in DOMAIN grid[r] :
                          IF \E i \in 1..Len(chars) : RayCell(c, i) = Pos(r, col)
                          THEN \A i \in 1..Len(chars) :
                                   RayCell(c, i) = Pos(r, col) => grid[r][col] = chars[i]
                          ELSE grid[r][col] = c.before[r][col]

\* placeWord('AB', grid, (0,0), (0,1,isBackward)) over a cell that held 'A'.
C9_Witness ==
    /\ call # None
    /\ call[1].op = "placeWord"
    /\ call[1].word = <<"A", "B">>
    /\ call[1].pos = Pos(0, 0)
    /\ call[1].direction = Dir(0, 1, TRUE)
    /\ call[1].before[0][0] = <<"A">>
    /\ grid[0][0] = <<"B">>
    /\ grid[0][1] = <<"A">>
    /\ grid[1][0] = EMPTY

\* C10: canPlaceWordAt returns true iff every cell of the ray is inside the
\* grid and holds the empty sentinel or the grapheme to be written there.
C10_CanPlaceWordAtIff ==
    (call # None /\ call[1].op = "canPlaceWordAt") =>
        LET c == call[1]
            chars == CallChars(c)
        IN  c.returned <=>
                \A i \in 1..Len(chars) :
                    /\ RayCell(c, i).row \in DOMAIN c.before
                    /\ RayCell(c, i).col \in DOMAIN c.before
                    /\ \/ c.before[RayCell(c, i).row][RayCell(c, i).col] = EMPTY
                       \/ c.before[RayCell(c, i).row][RayCell(c, i).col] = chars[i]

\* A backward word accepted over a cell that holds its grapheme.
C10_Witness ==
    /\ call # None
    /\ call[1].op = "canPlaceWordAt"
    /\ call[1].returned
    /\ call[1].direction.isBackward
    /\ call[1].word = <<"A", "B">>
    /\ \E i \in 1..2 :
          /\ RayCell(call[1], i).row \in DOMAIN grid
          /\ RayCell(call[1], i).col \in DOMAIN grid
          /\ grid[RayCell(call[1], i).row][RayCell(call[1], i).col] # EMPTY

\* The anchors of the whole grid that canPlaceWordAt accepts for a call.
LegalAnchors(c) ==
    { p \in { Pos(r, col) : r \in DOMAIN c.before, col \in DOMAIN c.before } :
        canPlaceWordAt(c.word, c.before, p, c.direction) }

\* C11: findValidWordPosition returns null iff no cell of the grid is an
\* anchor canPlaceWordAt accepts for the word and direction, and a position
\* it returns is such an anchor.
C11_FindsIffAnchorExists ==
    (call # None /\ call[1].op = "findValidWordPosition") =>
        /\ call[1].returned = None <=> LegalAnchors(call[1]) = {}
        /\ call[1].returned # None => call[1].returned[1] \in LegalAnchors(call[1])
        /\ grid = call[1].before

\* 'AB' along (-1,1) in a 2x2 grid: the one anchor is (1,0), over a cell
\* that holds 'B'.
C11_Witness ==
    /\ call # None
    /\ call[1].op = "findValidWordPosition"
    /\ call[1].word = <<"A", "B">>
    /\ call[1].direction = Dir(-1, 1, FALSE)
    /\ gridSize = 2
    /\ call[1].before[0][1] = <<"B">>
    /\ call[1].returned = Some(Pos(1, 0))

LessRat(a, b) == ~LeqRat(b, a)

StrictlyIncreasing(distribution) ==
    \A i \in 1..(Len(distribution) - 1) :
        LessRat(distribution[i].cumulativeFreq, distribution[i + 1].cumulativeFreq)

\* C12: on a non-empty distribution with strictly increasing cumulative
\* frequencies selectCharFromDistribution returns the first entry whose
\* cumulative frequency is >= the draw, and the last entry when there is
\* none; so a draw of 0 returns the first entry and a draw between the last
\* two cumulative frequencies the last.
C12_FirstEntryCoveringDraw ==
    (/\ call # None
     /\ call[1].op = "selectCharFromDistribution"
     /\ Len(call[1].distribution) > 0
     /\ StrictlyIncreasing(call[1].distribution)) =>
        LET d == call[1].distribution
            draw == call[1].randomValue
            n == Len(d)
            covering == { i \in 1..n : LeqRat(draw, d[i].cumulativeFreq) }
        IN  /\ covering # {} =>
                   \E i \in covering :
                       /\ \A j \in covering : i <= j
                       /\ call[1].returned = d[i].char
            /\ covering = {} => call[1].returned = d[n].char
            /\ draw.num = 0 => call[1].returned = d[1].char
            /\ (/\ LessRat(draw, d[n].cumulativeFreq)
                /\ n > 1 => LessRat(d[n - 1].cumulativeFreq, draw)) =>
                   call[1].returned = d[n].char

\* A draw of 3/4 on [(A, 1/4), (B, 2/4)]: above every cumulative frequency.
C12_Witness ==
    /\ call # None
    /\ call[1].op = "selectCharFromDistribution"
    /\ ~call[1].built
    /\ call[1].distribution =
           << [char |-> <<"A">>, cumulativeFreq |-> Rat(1, CumDen)],
              [char |-> <<"B">>, cumulativeFreq |-> Rat(2, CumDen)] >>
    /\ call[1].randomValue = Rat(3, CumDen)
    /\ call[1].returned = <<"B">>

\* C13: on every distribution calculateCharacterDistribution returns, the
\* empty one of an empty word list among them, and every draw in [0,1),
\* selectCharFromDistribution returns a grapheme and raises no error.
C13_SamplerNeverFails ==
    (/\ call # None
     /\ call[1].op = "selectCharFromDistribution"
     /\ call[1].built) =>
        /\ call[1].returned # TypeError
        /\ \E i \in 1..Len(call[1].distribution) :
               call[1].returned = call[1].distribution[i].char

\* C14: getDirections(false) returns the 4 vectors (0,1), (1,0), (1,1),
\* (-1,1) with isBackward false; getDirections(true) returns these 4 followed
\* by the same 4 vectors with isBackward true.
C14_FourOrEightDirections ==
    (call # None /\ call[1].op = "getDirections") =>
        LET ds == call[1].returned
            vectors == << <<0, 1>>, <<1, 0>>, <<1, 1>>, <<-1, 1>> >>
        IN  /\ Len(ds) = IF call[1].backwards THEN 8 ELSE 4
            /\ \A i \in 1..Len(ds) :
                   /\ <<ds[i].dRow, ds[i].dCol>> = vectors[((i - 1) % 4) + 1]
                   /\ ds[i].isBackward = (i > 4)

C14_Witness ==
    /\ call # None
    /\ call[1].op = "getDirections"
    /\ call[1].backwards
    /\ Len(call[1].returned) = 8
    /\ call[1].returned[8] = Dir(-1, 1, TRUE)

\* C15: for a non-empty word list calculateCharacterDistribution returns
\* one entry for each distinct grapheme of the words, with cumulative
\* frequencies that rise strictly from a first value > 0 to a last value of
\* exactly 1.
C15_DistributionRisesToOne ==
    (/\ call # None
     /\ call[1].op = "calculateCharacterDistribution"
     /\ Len(words) > 0) =>
        LET d == call[1].returned
            all == Flatten(words, 1)
            graphemes == { all[i] : i \in 1..Len(all) }
        IN  /\ Len(d) = Cardinality(graphemes)
            /\ { d[i].char : i \in 1..Len(d) } = graphemes
            /\ StrictlyIncreasing(d)
            /\ d[1].cumulativeFreq.num > 0
            /\ d[1].cumulativeFreq.den > 0
            /\ d[Len(d)].cumulativeFreq.num = d[Len(d)].cumulativeFreq.den

\* 'ABBCCC' on the last of 10 attempts: the most frequent grapheme C gets the
\* frequency 1/6 of the least frequent one.
C15_Witness ==
    /\ call # None
    /\ call[1].op = "calculateCharacterDistribution"
    /\ words = << <<"A", "B", "B", "C", "C", "C">> >>
    /\ call[1].attemptNumber = MAX_PUZZLE_ATTEMPTS - 1
    /\ call[1].maxAttempts = MAX_PUZZLE_ATTEMPTS
    /\ Len(call[1].returned) = 3
    /\ call[1].returned[1].char = <<"C">>
    /\ call[1].returned[1].cumulativeFreq.num * 6 = call[1].returned[1].cumulativeFreq.den

\* The indices of the input words that are accepted.
AcceptedIndices == { i \in 1..Len(words) : Accepted(words[i]) }

\* C16: in a valid result wordPositions has one entry for each accepted
\* input word (stripped of whitespace) and none for another word, and its
\* entries are in order of non-increasing grapheme count.
C16_OneEntryPerAcceptedWord ==
    ValidResult =>
        LET wp == result[1].wordPositions
        IN  /\ Len(wp) = Cardinality(AcceptedIndices)
            /\ \A k \in 1..Len(wp) :
                   /\ wp[k].word \in AcceptedWords
                   /\ Cardinality({ j \in 1..Len(wp) : wp[j].word = wp[k].word })
                        = Cardinality({ i \in AcceptedIndices :
                                          StripWhitespace(words[i]) = wp[k].word })
            /\ \A k \in 1..(Len(wp) - 1) :
                   countGraphemes(wp[k].word) >= countGraphemes(wp[k + 1].word)

\* ['A', 'AB'] on a 2x2 grid: the entry of 'AB' comes first.
C16_Witness ==
    /\ ValidResult
    /\ words = << <<"A">>, <<"A", "B">> >>
    /\ Len(result[1].wordPositions) = 2
    /\ result[1].wordPositions[1].word = <<"A", "B">>
    /\ result[1].wordPositions[2].word = <<"A">>

\* A step in which a generatePuzzle call raises an error.
CallRaises == Len(caught') > Len(caught)

\* C17: an error raised inside a generatePuzzle call is caught by
\* generateWordSearch and counts as one failed attempt: puzzleAttempt
\* advances by one, generateWordSearch neither throws the error nor returns,
\* and the loop goes on to the next attempt.
C17_ErrorsCountAsFailedAttempts ==
    /\ [](/\ thrown \in {Null, ExhaustedError}
          /\ Len(caught) <= puzzleAttempt
          /\ (pc = "threw" /\ Len(caught) > 0) => calls = MAX_PUZZLE_ATTEMPTS)
    /\ [][CallRaises =>
            /\ Len(caught') = Len(caught) + 1
            /\ puzzleAttempt' = puzzleAttempt + 1
            /\ calls' = calls + 1
            /\ pc' = "loop"
            /\ thrown' = Null
            /\ ret' = None]_vars

\* A call made after the error of the call before was caught has raised too.
C17_Witness ==
    /\ pc = "loop"
    /\ Len(caught) = 2
    /\ puzzleAttempt = 2
    /\ calls = 2
    /\ thrown = Null

\* The directions generatePuzzle is to try: the 4 base vectors, forward, and
\* backward too when allowBackwards.
EnabledDirections ==
    { Dir(v[1], v[2], b) : v \in { <<0, 1>>, <<1, 0>>, <<1, 1>>, <<-1, 1>> },
                           b \in (IF allowBackwards THEN BOOLEAN ELSE {FALSE}) }

\* word has a legal anchor in g along some enabled direction.
HasAnchor(word, g) ==
    \E direction \in EnabledDirections :
        \E r \in DOMAIN g, c \in DOMAIN g : canPlaceWordAt(word, g, Pos(r, c), direction)

\* The result of an attempt that failed at the current word.
FailedHere == Some([grid |-> grid, wordPositions |-> wordPositions, isValid |-> FALSE])

\* C18: while placing, the attempt fails iff the current word, the words
\* taken in sorted order, has no legal anchor along any enabled direction
\* in the current grid; a word that has one is placed; a failed attempt
\* places no later word and fills no cell.
C18_FailsIffNoAnchor ==
    /\ [](/\ pc = "placing" =>
                /\ wordIndex \in 1..Len(processedWords)
                /\ processedWords = ProcessWords(words, gridSize)
                /\ Len(wordPositions) = wordIndex - 1
          /\ (result # None /\ ~result[1].isValid) =>
                /\ Len(result[1].wordPositions) < Len(ProcessWords(words, gridSize))
                /\ \A r \in DOMAIN result[1].grid, c \in DOMAIN result[1].grid :
                       Pos(r, c) \notin WrittenCells(result[1]) =>
                           result[1].grid[r][c] = EMPTY)
    /\ [][/\ pc = "placing" =>
                IF HasAnchor(processedWords[wordIndex], grid)
                THEN /\ pc' \in {"placing", "filling"}
                     /\ Len(wordPositions') = Len(wordPositions) + 1
                     /\ wordPositions'[Len(wordPositions')].word = processedWords[wordIndex]
                     /\ result' = result
                ELSE /\ pc' = "loop"
                     /\ result' = FailedHere
          /\ (result' # result /\ ~result'[1].isValid) =>
                /\ pc = "placing"
                /\ ~HasAnchor(processedWords[wordIndex], grid)]_vars

\* ['A', 'B', 'A'] on a 1x1 grid: 'A' is placed, 'B' has no anchor, the
\* second 'A' is not placed.
C18_Witness ==
    /\ result # None
    /\ ~result[1].isValid
    /\ Len(ProcessWords(words, gridSize)) = 3
    /\ Len(result[1].wordPositions) = 1
    /\ result[1].grid[0][0] = <<"A">>

\* A step in which generateWordSearch calls generatePuzzle and the call
\* gets past its word filter.
AttemptBegins == pc = "loop" /\ pc' = "placing"

\* The cells of g that hold a grapheme.
NonEmptyCells(g) ==
    { Pos(r, c) : r \in DOMAIN g, c \in DOMAIN g } \
        { p \in { Pos(r, c) : r \in DOMAIN g, c \in DOMAIN g } : g[p.row][p.col] = EMPTY }

\* C19: every attempt starts from an all-empty grid and an empty
\* wordPositions list, whatever the attempts before have left: while
\* placing, the grid holds what the placements of this attempt wrote and
\* nothing else, and the result returned has the entries of one attempt.
C19_AttemptsStartFresh ==
    /\ [](/\ pc = "placing" =>
                NonEmptyCells(grid) =
                    WrittenCells([wordPositions |-> wordPositions])
          /\ pc \in {"placing", "filling"} =>
                Len(wordPositions) <= Len(ProcessWords(words, gridSize))
          /\ ret # None =>
                /\ Len(ret[1].wordPositions) = Len(ProcessWords(words, gridSize))
                /\ ret[1].wordPositions = result[1].wordPositions
                /\ ret[1].grid = result[1].grid)
    /\ [][AttemptBegins =>
            /\ grid' = [r \in 0..(gridSize - 1) |-> [c \in 0..(gridSize - 1) |-> EMPTY]]
            /\ wordPositions' = <<>>
            /\ wordIndex' = 1
            /\ fillAt' = 0
            /\ puzzleAttempt' = puzzleAttempt]_vars

\* An attempt begins after one that failed with a word placed.
C19_Witness ==
    /\ pc = "placing"
    /\ puzzleAttempt >= 1
    /\ result # None
    /\ ~result[1].isValid
    /\ NonEmptyCells(result[1].grid) # {}
    /\ Len(result[1].wordPositions) >= 1
    /\ NonEmptyCells(grid) = {}
    /\ wordPositions = <<>>

\* The occurrences, among the graphemes of the accepted words, of the first
\* i graphemes of the distribution d, and of its last i graphemes.
CountOfFirst(d, i) ==
    LET all == Flatten(processedWords, 1)
    IN  Cardinality({ j \in 1..Len(all) : \E k \in 1..i : all[j] = d[k].char })

CountOfLast(d, i) ==
    LET all == Flatten(processedWords, 1)
    IN  Cardinality({ j \in 1..Len(all) :
                        \E k \in (Len(d) + 1 - i)..Len(d) : all[j] = d[k].char })

InAttempt == pc \in {"placing", "filling"}

\* A step that ends an attempt in failure: the call raises, or returns
\* isValid false.
AttemptFails == CallRaises \/ (pc = "placing" /\ pc' = "loop")

\* C20: the index generateWordSearch hands generatePuzzle is the number of
\* attempts that have failed: 0 at first, one more after each failed attempt,
\* 9 at most; the distribution of an attempt is built once, from that index:
\* at index 0 from the frequencies as they are (t = 0), at index 9 from the
\* frequencies in mirrored rank (t = 1).
C20_IndexCountsFailedAttempts ==
    /\ [](/\ pc \in {"loop", "threw"} => puzzleAttempt = calls
          /\ pc \in {"placing", "filling", "returned"} => puzzleAttempt = calls - 1
          /\ puzzleAttempt <= MAX_PUZZLE_ATTEMPTS
          /\ InAttempt =>
                /\ puzzleAttempt <= MAX_PUZZLE_ATTEMPTS - 1
                /\ charDistribution =
                       calculateCharacterDistribution(processedWords, puzzleAttempt,
                                                      MAX_PUZZLE_ATTEMPTS)
                /\ \A i \in 1..Len(charDistribution) :
                       LET f == charDistribution[i].cumulativeFreq
                           total == Len(Flatten(processedWords, 1))
                       IN  /\ puzzleAttempt = 0 =>
                                 f.num * total = CountOfFirst(charDistribution, i) * f.den
                           /\ puzzleAttempt = MAX_PUZZLE_ATTEMPTS - 1 =>
                                 f.num * total = CountOfLast(charDistribution, i) * f.den)
    /\ [][/\ puzzleAttempt' \in {puzzleAttempt, puzzleAttempt + 1}
          /\ puzzleAttempt' = puzzleAttempt + 1 <=> AttemptFails
          /\ (InAttempt /\ InAttempt') => charDistribution' = charDistribution
          /\ AttemptBegins => calls' = calls + 1]_vars

\* The 10th attempt for ['A', 'B', 'A'] on a 1x1 grid: its distribution gives
\* 'A', the more frequent grapheme, the frequency 1/3 of 'B'.
C20_Witness ==
    /\ pc = "placing"
    /\ puzzleAttempt = MAX_PUZZLE_ATTEMPTS - 1
    /\ calls = MAX_PUZZLE_ATTEMPTS
    /\ Len(charDistribution) = 2
    /\ charDistribution[1].char = <<"A">>
    /\ charDistribution[1].cumulativeFreq.num * 3 = charDistribution[1].cumulativeFreq.den

\* C21: canPlaceWordAt and findValidWordPosition only inspect the grid: after
\* the call every cell holds what it held before, whatever was returned.
C21_ValidationLeavesGrid ==
    (call # None /\ call[1].op \in {"canPlaceWordAt", "findValidWordPosition"}) =>
        /\ DOMAIN grid = DOMAIN call[1].before
        /\ \A r \in DOMAIN grid :
               /\ DOMAIN grid[r] = DOMAIN call[1].before[r]
               /\ \A c \in DOMAIN grid[r] : grid[r][c] = call[1].before[r][c]

\* canPlaceWordAt has accepted 'AB' from (0,0) to the right in a grid with a
\* grapheme in another cell: the cells of its ray are still empty.
C21_Witness ==
    /\ call # None
    /\ call[1].op = "canPlaceWordAt"
    /\ call[1].returned
    /\ call[1].word = <<"A", "B">>
    /\ call[1].pos = Pos(0, 0)
    /\ call[1].direction = Dir(0, 1, FALSE)
    /\ grid[0][0] = EMPTY
    /\ grid[0][1] = EMPTY
    /\ grid[1][1] = <<"B">>

\* The graphemes at the positions of an entry of wordPositions, in their order.
ReadEntry(g, entry) ==
    [k \in 1..Len(entry.positions) |->
        g[entry.positions[k].row][entry.positions[k].col]]

\* The entry spells its word in g: forward, or backward where that is allowed.
Spells(g, entry) ==
    \/ ReadEntry(g, entry) = splitGraphemes(entry.word)
    \/ allowBackwards /\ ReadEntry(g, entry) = Reverse(splitGraphemes(entry.word))

\* The grid a step of generatePuzzle leaves: the local grid, or the grid of
\* the result when the step returns.
GridLeft == IF pc' \in {"returned", "loop"} THEN result'[1].grid ELSE grid'

\* C22: after each placement and after the fill, every entry of
\* wordPositions still spells its word at its positions, in write order;
\* a placement writes only into cells that were empty or held the grapheme
\* it writes.
C22_PlacedWordsStayIntact ==
    /\ [](/\ InAttempt => \A i \in 1..Len(wordPositions) : Spells(grid, wordPositions[i])
          /\ result # None =>
                \A i \in 1..Len(result[1].wordPositions) :
                    Spells(result[1].grid, result[1].wordPositions[i]))
    /\ [][pc = "placing" =>
            \A r \in DOMAIN grid, c \in DOMAIN grid :
                GridLeft[r][c] # grid[r][c] => grid[r][c] = EMPTY]_vars

\* ['A', 'AB']: 'A' was placed on the cell that holds the 'A' of 'AB'.
C22_Witness ==
    /\ ValidResult
    /\ Len(result[1].wordPositions) = 2
    /\ result[1].wordPositions[1].word = <<"A", "B">>
    /\ result[1].wordPositions[2].word = <<"A">>
    /\ \E k \in 1..2 :
          result[1].wordPositions[1].positions[k] = result[1].wordPositions[2].positions[1]

\* The graphemes of the accepted words.
AcceptedGraphemes ==
    UNION { { splitGraphemes(w)[i] : i \in 1..Len(splitGraphemes(w)) } : w \in AcceptedWords }

\* C23: the fill changes only cells that held the empty sentinel and writes
\* only graphemes of the accepted words; in a valid result every cell holds
\* a grapheme of an accepted word.
C23_FillWritesWordGraphemes ==
    /\ [](ValidResult =>
              \A r \in DOMAIN result[1].grid, c \in DOMAIN result[1].grid :
                  result[1].grid[r][c] \in AcceptedGraphemes)
    /\ [][pc = "filling" =>
            \A r \in DOMAIN grid, c \in DOMAIN grid :
                GridLeft[r][c] # grid[r][c] =>
                    /\ grid[r][c] = EMPTY
                    /\ GridLeft[r][c] \in AcceptedGraphemes]_vars

\* ['A', 'AB'] on a 2x2 grid: the two cells the words left empty hold 'A'
\* and 'B'.
C23_Witness ==
    /\ ValidResult
    /\ gridSize = 2
    /\ words = << <<"A">>, <<"A", "B">> >>
    /\ \E p \in NonEmptyCells(result[1].grid) \ WrittenCells(result[1]) :
          result[1].grid[p.row][p.col] = <<"A">>
    /\ \E p \in NonEmptyCells(result[1].grid) \ WrittenCells(result[1]) :
          result[1].grid[p.row][p.col] = <<"B">>

\* C24: canPlaceWord of wordSearch.ts leaves the grid as it found it: after a
\* call, whether it returned true or false, and on the early out-of-bounds
\* return too, every cell holds the value it held before the call.
C24_CanPlaceWordRestoresGrid ==
    (call # None /\ call[1].op = "canPlaceWord") =>
        \A r \in DOMAIN grid, c \in DOMAIN grid : grid[r][c] = call[1].before[r][c]

\* The word of the call lies in the grid.
CallInBounds ==
    LET n == countGraphemes(call[1].word) - 1
    IN  /\ call[1].row + call[1].direction[1] * n \in 0..(gridSize - 1)
        /\ call[1].col + call[1].direction[2] * n \in 0..(gridSize - 1)

\* A call that returned true for a word the grid did not hold there.
C24_Witness ==
    /\ call # None
    /\ call[1].op = "canPlaceWord"
    /\ call[1].returned
    /\ CallInBounds
    /\ WriteWord(splitGraphemes(call[1].word), call[1].before, call[1].row, call[1].col,
                 call[1].direction[1], call[1].direction[2]) # call[1].before

\* The (start cell, direction) pairs, over the 8 directions, from which the
\* word reads in g: the count of findWordOccurrences over the full space.
EightDirectionCount(word, g) ==
    Cardinality({ rcd \in (DOMAIN g) \X (DOMAIN g) \X EightDirections :
                    ReadsAt(splitGraphemes(word), g, rcd[1], rcd[2], rcd[3]) })

\* The word-search generateWordSearch of wordSearch.ts returned.
WSReturned == pc = "returned" /\ ret # None /\ result # None

\* C25: an attempt of wordSearch.ts is valid only if every accepted word
\* occurs exactly once over the full 8-direction space, whether or not
\* allowBackwards is set.
C25_ValidOnlyIfOnceInEightDirections ==
    (result # None /\ result[1].isValid) =>
        \A k \in 1..Len(processedWords) :
            EightDirectionCount(processedWords[k], result[1].grid) = 1

\* C26: in every result generateWordSearch of wordSearch.ts returns, the
\* cells at the recorded positions of each entry of wordPositions, read in
\* order, spell the graphemes of its word.
C26_ReturnedPositionsSpellWords ==
    WSReturned =>
        \A k \in 1..Len(ret[1].wordPositions) :
            ReadEntry(ret[1].grid, ret[1].wordPositions[k])
                = splitGraphemes(ret[1].wordPositions[k].word)

\* C27: generateWordSearch of wordSearch.ts returns no grid when no word
\* survives the filter: the list is empty, or every word is empty after
\* whitespace stripping or longer than gridSize.
C27_NoGridWithoutWords ==
    (pc # "ws_call" /\ Len(processedWords) = 0) => ret = None

\* The step called generateWordSearch.
Submitted == call # None /\ call[1].op = "generateWordSearch"

\* The engine drops no word of wordList on a grid of this size.
NoWordTooLong(wordList, size) ==
    \A i \in 1..Len(wordList) : countGraphemes(StripWhitespace(wordList[i])) <= size

\* C28: handleSubmit calls generateWordSearch with a grid size of at least
\* the default minimum and at least the grapheme count of the longest
\* submitted word, after any text edits, slider changes and submits; so does
\* the handleSubmit of src/src/App.tsx, which measures words by word.length.
C28_GridFitsLongestSubmittedWord ==
    /\ Submitted =>
          /\ call[1].gridSize >= DefaultMinimum
          /\ NoWordTooLong(call[1].words, call[1].gridSize)
          /\ Len(ProcessWords(call[1].words, call[1].gridSize)) = Len(call[1].words)
    /\ pc = "app" =>
          /\ MaxOf({gridSize, minGridSizeByLength}) >= DefaultMinimum
          /\ NoWordTooLong(ParseWords(wordInput), MaxOf({gridSize, minGridSizeByLength}))

\* A submit of a word longer than the default minimum, on a grid just as
\* large as the word and smaller than the initial grid: the slider was below
\* the length of the word.
C28_Witness ==
    /\ Submitted
    /\ call[1].gridSize > DefaultMinimum
    /\ call[1].gridSize < InitialGridSize
    /\ \E i \in 1..Len(call[1].words) :
          countGraphemes(StripWhitespace(call[1].words[i])) = call[1].gridSize

\* C29: whenever a puzzle is displayed and no error is shown, the puzzle was
\* generated from the words list on display.
C29_PuzzleMatchesWordsList ==
    (pc = "app" /\ puzzle # None /\ error = Null) => puzzle[1].words = words

\* C30: the pagination loop of generatePDF ends for every puzzle: words per
\* column and number of columns are both at least 1, and each call of
\* drawWordsOnPage draws at least one word while words remain.
C30_EveryPageDrawsAWord ==
    /\ pc = "pdf_loop" =>
          /\ numColumns >= 1
          /\ wordsPerColumn(TRUE) >= 1
          /\ wordsPerColumn(FALSE) >= 1
    /\ (call # None /\ call[1].op = "drawWordsOnPage") => call[1].wordsDrawn >= 1

====
